---- MODULE Spec2Model ----
(***************************************************************************)
(* Viewport activation on the Dispatch Ride landing page:                  *)
(*   - scroll animations   (src/src/scripts/animations.js)                 *)
(*   - lazy image loading  (src/src/scripts/image-optimizer.js)            *)
(* Numbers in [0,1] (thresholds, intersection ratios) are held in          *)
(* hundredths: 10 stands for 0.1.  A rootMargin string is held as the      *)
(* sequence of its pixel components: <<0>> is '0px', <<0,0,-50,0>> is      *)
(* '0px 0px -50px 0px'.                                                    *)
(***************************************************************************)
EXTENDS Integers, Sequences, FiniteSets, TLC

VARIABLES
  ioPlatform,            \* what the window exposes: "full", "noRatio", "none"
  prefersReducedMotion,  \* animations.js: matchMedia(...).matches at module load
  dataset,               \* element.dataset of every animation target
  classList,             \* element.classList of every animation target
  style,                 \* element.style of every animation target
  observers,             \* IntersectionObservers made by animations.js, in creation order
  globalObserver,        \* animations.js: globalObserver (0 is null)
  observerRegistry,      \* animations.js: observerRegistry (0 is no entry)
  timers,                \* pending setTimeout callbacks of applyAnimation
  handles,               \* control objects returned by initScrollAnimations
  imgClass,              \* img.classList of every image
  imgAttr,               \* the data-src and src attributes of every image
  lazyObservers,         \* IntersectionObservers made by initLazyLoading
  lazyRegistry,          \* image-optimizer.js: observerRegistry (0 is no entry)
  loads,                 \* loadImage calls waiting for the temporary Image
  lazyHandles,           \* cleanup functions returned by initLazyLoading
  mainPage,              \* main.js: what init has done to the page
  picture,               \* the <picture> element of the page (Null: none)
  formatSupportCache,    \* image-optimizer.js: formatSupportCache
  throttles,             \* the clock and the closures of the two throttle functions
  APP_STATE,             \* main.js: APP_STATE
  EventHandler,          \* main.js: EventHandler._listeners, and the closures on has made
  domListeners,          \* the event listeners of the window, the document and a button
  landing,               \* part_004: the hero section, the download buttons, init's closure
  carousel,              \* part_003: the testimonials and the closure of initTestimonials
  last                   \* the most recent call and its outcome

utilVars == <<throttles, APP_STATE, EventHandler, domListeners, landing, carousel>>
envVars  == <<ioPlatform, prefersReducedMotion, dataset, mainPage, picture,
              formatSupportCache, utilVars>>
animVars == <<classList, style, observers, globalObserver, observerRegistry,
              timers, handles>>
lazyVars == <<imgClass, imgAttr, lazyObservers, lazyRegistry, loads, lazyHandles>>
coreVars == <<ioPlatform, prefersReducedMotion, dataset, mainPage, picture,
              formatSupportCache, animVars, lazyVars>>
vars     == <<envVars, animVars, lazyVars, last>>

----------------------------------------------------------------------------
(* Bounds                                                                  *)

\* registrations (control objects) per run
MaxHandles == 2

\* loadImage calls in flight at once
MaxLoads == 2

\* <source> elements of a picture
MaxSources == 2

\* candidates of a srcset handed to parseSrcset
MaxCandidates == 2

\* milliseconds the clock runs on after the page has loaded
MaxTime == 6

\* calls of EventHandler.on by the page
MaxOn == 2

\* elements with a data-download-platform attribute
MaxButtons == 2

\* testimonial cards of the page
MaxSlides == 3

----------------------------------------------------------------------------
(* JavaScript values, tagged with their typeof                             *)

Num(n)    == [type |-> "number", num |-> n]
Str(s)    == [type |-> "string", str |-> s]
Margin(m) == [type |-> "string", px |-> m]
Bool(b)   == [type |-> "boolean", bool |-> b]
Absent    == [type |-> "absent"]
Null      == [type |-> "null"]

----------------------------------------------------------------------------
(* The document                                                            *)

Elems == {"e1", "e2"}

\* an array item that is not an Element
TextNode == "#text"

NoData == [animationType |-> "", animationDelay |-> "", animationDuration |-> ""]

\* document.querySelectorAll: a SyntaxError for a selector that does not parse
QuerySelectorAll(sel) ==
  CASE sel = ".animate" -> [threw |-> FALSE, els |-> <<"e1", "e2">>]
    [] sel = ".missing" -> [threw |-> FALSE, els |-> <<>>]
    [] OTHER            -> [threw |-> TRUE, error |-> "SyntaxError", message |-> sel]

----------------------------------------------------------------------------
(* animations.js: configuration                                            *)

AnimationType == {"fade-in", "slide-up", "slide-left", "slide-right", "scale", "none"}

OptionKeys == {"threshold", "rootMargin", "triggerOnce", "animationType",
               "delay", "duration"}

DEFAULT_CONFIG ==
  [threshold     |-> Num(10),
   rootMargin    |-> Margin(<<0>>),
   triggerOnce   |-> Bool(TRUE),
   animationType |-> Str("fade-in"),
   delay         |-> Num(0),
   duration      |-> Num(300)]

\* { ...DEFAULT_CONFIG, ...config }
MergeConfig(config) ==
  [k \in OptionKeys |-> IF config[k] = Absent THEN DEFAULT_CONFIG[k] ELSE config[k]]

IsObject(config) == DOMAIN config = OptionKeys

TypeError(msg) == [ok |-> FALSE, error |-> "TypeError", message |-> msg]

\* validateConfig with the range of threshold left unchecked
validateConfigAnyThreshold(config) ==
  IF ~IsObject(config) THEN TypeError("Configuration must be an object")
  ELSE LET validated == MergeConfig(config) IN
    IF validated.threshold.type # "number"
      THEN TypeError("threshold must be a number between 0 and 1")
    ELSE IF validated.rootMargin.type # "string"
      THEN TypeError("rootMargin must be a string")
    ELSE IF validated.triggerOnce.type # "boolean"
      THEN TypeError("triggerOnce must be a boolean")
    ELSE IF validated.delay.type # "number" \/ validated.delay.num < 0
      THEN TypeError("delay must be a non-negative number")
    ELSE IF validated.duration.type # "number" \/ validated.duration.num < 0
      THEN TypeError("duration must be a non-negative number")
    ELSE IF validated.animationType.type # "string"
            \/ validated.animationType.str \notin AnimationType
      THEN TypeError("animationType must be one of the animation types")
    ELSE [ok |-> TRUE,
          config |-> [threshold     |-> validated.threshold.num,
                      rootMargin    |-> validated.rootMargin.px,
                      triggerOnce   |-> validated.triggerOnce.bool,
                      animationType |-> validated.animationType.str,
                      delay         |-> validated.delay.num,
                      duration      |-> validated.duration.num]]

validateConfig(config) ==
  IF ~IsObject(config) THEN TypeError("Configuration must be an object")
  ELSE LET validated == MergeConfig(config) IN
    IF validated.threshold.type # "number"
       \/ validated.threshold.num < 0 \/ validated.threshold.num > 100
      THEN TypeError("threshold must be a number between 0 and 1")
    ELSE IF validated.rootMargin.type # "string"
      THEN TypeError("rootMargin must be a string")
    ELSE IF validated.triggerOnce.type # "boolean"
      THEN TypeError("triggerOnce must be a boolean")
    ELSE IF validated.delay.type # "number" \/ validated.delay.num < 0
      THEN TypeError("delay must be a non-negative number")
    ELSE IF validated.duration.type # "number" \/ validated.duration.num < 0
      THEN TypeError("duration must be a non-negative number")
    ELSE IF validated.animationType.type # "string"
            \/ validated.animationType.str \notin AnimationType
      THEN TypeError("animationType must be one of the animation types")
    ELSE [ok |-> TRUE,
          config |-> [threshold     |-> validated.threshold.num,
                      rootMargin    |-> validated.rootMargin.px,
                      triggerOnce   |-> validated.triggerOnce.bool,
                      animationType |-> validated.animationType.str,
                      delay         |-> validated.delay.num,
                      duration      |-> validated.duration.num]]

isIntersectionObserverSupported == ioPlatform = "full"

\* getElements handing an array back without looking at its items
getElementsAnyArray(selector) ==
  CASE selector.kind = "string"   -> QuerySelectorAll(selector.sel)
    [] selector.kind = "element"  -> [threw |-> FALSE, els |-> <<selector.el>>]
    [] selector.kind \in {"nodelist", "array"} ->
         [threw |-> FALSE, els |-> selector.items]
    [] OTHER -> [threw |-> TRUE, error |-> "TypeError",
                 message |-> "Selector must be a string, Element, NodeList, or Element array"]

\* selector forms: a string, an Element, a NodeList, an array, anything else
getElements(selector) ==
  CASE selector.kind = "string"   -> QuerySelectorAll(selector.sel)
    [] selector.kind = "element"  -> [threw |-> FALSE, els |-> <<selector.el>>]
    [] selector.kind = "nodelist" -> [threw |-> FALSE, els |-> selector.items]
    [] selector.kind = "array"    ->
         IF \A i \in 1..Len(selector.items) : selector.items[i] \in Elems
           THEN [threw |-> FALSE, els |-> selector.items]
           ELSE [threw |-> TRUE, error |-> "TypeError",
                 message |-> "Array must contain only Element instances"]
    [] OTHER -> [threw |-> TRUE, error |-> "TypeError",
                 message |-> "Selector must be a string, Element, NodeList, or Element array"]

----------------------------------------------------------------------------
(* The DOM and the platform's IntersectionObserver                         *)
(* A world W is the mutable state a call works on, with the trace of the   *)
(* call: threw (an exception left the call), applied and removed (the      *)
(* elements applyAnimation and removeAnimation were invoked on, in order). *)

World ==
  [classList |-> classList, style |-> style, observers |-> observers,
   globalObserver |-> globalObserver, registry |-> observerRegistry,
   timers |-> timers, threw |-> FALSE, applied |-> <<>>, removed |-> <<>>]

NoStyle == [opacity |-> "", transform |-> "", animationDuration |-> -1]

\* DOMTokenList.add refuses a token that holds white space
ValidToken(token) == token \notin {"animate-fade in"}

\* parseInt(text, 10)
ParseInt(text) ==
  CASE text = "200" -> [nan |-> FALSE, val |-> 200]
    [] text = "0"   -> [nan |-> FALSE, val |-> 0]
    [] OTHER        -> [nan |-> TRUE]

\* parseInt(text, 10) || fallback
ParseIntOr(text, fallback) ==
  LET p == ParseInt(text) IN IF p.nan \/ p.val = 0 THEN fallback ELSE p.val

\* IntersectionObserver.rootMargin: the margin serialised with four components
NormalizeMargin(m) ==
  CASE Len(m) = 1 -> <<m[1], m[1], m[1], m[1]>>
    [] Len(m) = 2 -> <<m[1], m[2], m[1], m[2]>>
    [] Len(m) = 3 -> <<m[1], m[2], m[3], m[2]>>
    [] OTHER      -> m

\* new IntersectionObserver(callback, {threshold, rootMargin}); the callback
\* closes over config
NewObserver(config) ==
  [threshold  |-> config.threshold,
   rootMargin |-> NormalizeMargin(config.rootMargin),
   config     |-> config,
   targets    |-> {}]

\* observer.observe(element): nothing when the element already is a target
Observe(W, o, element) ==
  [W EXCEPT !.observers[o].targets = @ \cup {element}]

\* observer.unobserve(element)
Unobserve(W, o, element) ==
  [W EXCEPT !.observers[o].targets = @ \ {element}]

\* entry.isIntersecting as the platform may report it for a ratio: true when
\* the target meets the root at all, or only once the threshold is reached,
\* depending on the engine
IsIntersectingOutcomes(ratio, threshold) ==
  IF ratio > 0 /\ ratio >= threshold THEN {TRUE}
  ELSE IF ratio > 0 THEN BOOLEAN
  ELSE {FALSE}

----------------------------------------------------------------------------
(* animations.js: effects                                                  *)

\* applyAnimation without its prefersReducedMotion branch
applyAnimationAlways(W, element, animationType, delay, duration) ==
  LET W1 == [W EXCEPT !.style[element].animationDuration = duration,
                      !.applied = Append(@, element)]
      token == "animate-" \o animationType
  IN IF delay > 0
       THEN [W1 EXCEPT !.timers = @ \cup {[element |-> element, token |-> token]}]
     ELSE IF ~ValidToken(token)
       THEN [W1 EXCEPT !.threw = TRUE]
     ELSE [W1 EXCEPT !.classList[element] = @ \cup {"visible", token}]

applyAnimation(W, element, animationType, delay, duration) ==
  IF prefersReducedMotion
    THEN [W EXCEPT !.classList[element] = @ \cup {"visible"},
                   !.style[element].opacity = "1",
                   !.style[element].transform = "none",
                   !.applied = Append(@, element)]
  ELSE LET W1 == [W EXCEPT !.style[element].animationDuration = duration,
                           !.applied = Append(@, element)]
           token == "animate-" \o animationType
       IN IF delay > 0
            THEN [W1 EXCEPT !.timers = @ \cup {[element |-> element, token |-> token]}]
          ELSE IF ~ValidToken(token)
            THEN [W1 EXCEPT !.threw = TRUE]
          ELSE [W1 EXCEPT !.classList[element] = @ \cup {"visible", token}]

\* removeAnimation taking only the visible class away
removeAnimationVisibleOnly(W, element) ==
  [W EXCEPT !.classList[element] = @ \ {"visible"},
            !.removed = Append(@, element)]

removeAnimation(W, element) ==
  [W EXCEPT !.classList[element] =
              @ \ ({"visible"} \cup {"animate-" \o type : type \in AnimationType \ {"none"}}),
            !.style[element].animationDuration = -1,
            !.removed = Append(@, element)]

\* one entry of handleIntersection's forEach
HandleEntry(W, entry, o, config) ==
  LET element == entry.target IN
  IF entry.isIntersecting THEN
    LET animationType == IF dataset[element].animationType # ""
                           THEN dataset[element].animationType
                           ELSE config.animationType
        delay    == ParseIntOr(dataset[element].animationDelay, config.delay)
        duration == ParseIntOr(dataset[element].animationDuration, config.duration)
        W1 == applyAnimation(W, element, animationType, delay, duration)
    IN IF W1.threw THEN W1
       ELSE IF config.triggerOnce
         THEN [Unobserve(W1, o, element) EXCEPT !.registry[element] = 0]
       ELSE W1
  ELSE IF ~config.triggerOnce THEN removeAnimation(W, element)
  ELSE W

RECURSIVE handleIntersection(_, _, _, _)
handleIntersection(W, entries, o, config) ==
  IF entries = <<>> \/ W.threw THEN W
  ELSE handleIntersection(HandleEntry(W, Head(entries), o, config),
                          Tail(entries), o, config)

\* getObserver: the observer to use, with the world it leaves
getObserver(W, config) ==
  IF W.globalObserver # 0
     /\ W.observers[W.globalObserver].threshold = config.threshold
     /\ W.observers[W.globalObserver].rootMargin = config.rootMargin
    THEN [observer |-> W.globalObserver, world |-> W]
  ELSE LET o == Len(W.observers) + 1
           W1 == [W EXCEPT !.observers = Append(@, NewObserver(config))]
       IN [observer |-> o,
           world |-> IF W.globalObserver = 0
                       THEN [W1 EXCEPT !.globalObserver = o] ELSE W1]

\* the forEach of initScrollAnimations over the elements
RECURSIVE ObserveEach(_, _, _)
ObserveEach(W, elements, o) ==
  IF elements = <<>> THEN W
  ELSE LET element == Head(elements)
           W1 == [W EXCEPT !.registry[element] = o,
                           !.classList[element] = @ \cup {"animate-element"}]
       IN ObserveEach(Observe(W1, o, element), Tail(elements), o)

\* the fallback forEach with the opacity left alone
RECURSIVE ShowEachClassOnly(_, _)
ShowEachClassOnly(W, elements) ==
  IF elements = <<>> THEN W
  ELSE ShowEachClassOnly([W EXCEPT !.classList[Head(elements)] = @ \cup {"visible"}],
                         Tail(elements))

\* the fallback forEach of initScrollAnimations
RECURSIVE ShowEach(_, _)
ShowEach(W, elements) ==
  IF elements = <<>> THEN W
  ELSE ShowEach([W EXCEPT !.classList[Head(elements)] = @ \cup {"visible"},
                          !.style[Head(elements)].opacity = "1"],
                Tail(elements))

\* the forEach of the control object's cleanup
RECURSIVE CleanupEach(_, _)
CleanupEach(W, elements) ==
  IF elements = <<>> THEN W
  ELSE LET element == Head(elements)
           elementObserver == W.registry[element]
           W1 == IF elementObserver # 0
                   THEN [Unobserve(W, elementObserver, element)
                           EXCEPT !.registry[element] = 0]
                   ELSE W
           W2 == removeAnimation(W1, element)
       IN CleanupEach([W2 EXCEPT !.classList[element] = @ \ {"animate-element"}],
                      Tail(elements))

\* initScrollAnimations without the early return on an empty element list
initScrollAnimationsObservingNone(W, selector, options) ==
  IF ~isIntersectionObserverSupported THEN
    LET got == getElements(selector) IN
    IF got.threw THEN [world |-> W, outcome |-> "throw", error |-> got.error,
                       message |-> got.message]
    ELSE [world |-> ShowEach(W, got.els), outcome |-> "noop", elements |-> <<>>]
  ELSE LET v == validateConfig(options) IN
    IF ~v.ok THEN [world |-> W, outcome |-> "throw", error |-> v.error,
                   message |-> v.message]
    ELSE LET got == getElements(selector) IN
      IF got.threw THEN [world |-> W, outcome |-> "throw", error |-> got.error,
                         message |-> got.message]
      ELSE LET g == getObserver(W, v.config) IN
        [world |-> ObserveEach(g.world, got.els, g.observer),
         outcome |-> "handle", elements |-> got.els, config |-> v.config,
         observer |-> g.observer]

\* initScrollAnimations(selector, options): the world it leaves and what it
\* hands to the caller
initScrollAnimations(W, selector, options) ==
  IF ~isIntersectionObserverSupported THEN
    LET got == getElements(selector) IN
    IF got.threw THEN [world |-> W, outcome |-> "throw", error |-> got.error,
                       message |-> got.message]
    ELSE [world |-> ShowEach(W, got.els), outcome |-> "noop", elements |-> <<>>]
  ELSE LET v == validateConfig(options) IN
    IF ~v.ok THEN [world |-> W, outcome |-> "throw", error |-> v.error,
                   message |-> v.message]
    ELSE LET got == getElements(selector) IN
      IF got.threw THEN [world |-> W, outcome |-> "throw", error |-> got.error,
                         message |-> got.message]
      ELSE IF Len(got.els) = 0
        THEN [world |-> W, outcome |-> "noop", elements |-> <<>>]
      ELSE LET g == getObserver(W, v.config) IN
        [world |-> ObserveEach(g.world, got.els, g.observer),
         outcome |-> "handle", elements |-> got.els, config |-> v.config,
         observer |-> g.observer]

\* the control object's cleanup; { cleanup: () => {} } for a "noop" handle
cleanup(W, handle) ==
  IF handle.kind = "noop" THEN W ELSE CleanupEach(W, handle.elements)

\* the callback applyAnimation hands to setTimeout
timerCallback(W, timer) ==
  IF ~ValidToken(timer.token) THEN [W EXCEPT !.threw = TRUE]
  ELSE [W EXCEPT !.classList[timer.element] = @ \cup {"visible", timer.token}]

----------------------------------------------------------------------------
(* image-optimizer.js: lazy loading                                        *)
(* The images stand outside any <picture> and carry no data-srcset, so     *)
(* loadImage reaches its temporary Image without waiting for               *)
(* selectBestSource.                                                       *)

Imgs == {"i1", "i2"}

\* an element of the page that is no HTMLImageElement
Div == "d1"

LazyKeys == {"rootMargin", "threshold"}

DEFAULT_LAZY_CONFIG == [rootMargin |-> Num(50), threshold |-> Num(1)]

LazyWorld ==
  [imgClass |-> imgClass, imgAttr |-> imgAttr, observers |-> lazyObservers,
   registry |-> lazyRegistry, loads |-> loads, threw |-> FALSE, started |-> <<>>]

\* { ...DEFAULT_CONFIG, ...userConfig }, then the two checks that put the
\* default back
lazyConfig(userConfig) ==
  LET config == [k \in LazyKeys |->
                   IF userConfig[k] = Absent THEN DEFAULT_LAZY_CONFIG[k]
                   ELSE userConfig[k]]
      rootMargin == IF config.rootMargin.type # "number" \/ config.rootMargin.num < 0
                      THEN DEFAULT_LAZY_CONFIG.rootMargin ELSE config.rootMargin
      threshold  == IF config.threshold.type # "number"
                       \/ config.threshold.num < 0 \/ config.threshold.num > 100
                      THEN DEFAULT_LAZY_CONFIG.threshold ELSE config.threshold
  IN [rootMargin |-> rootMargin.num, threshold |-> threshold.num]

\* document.querySelectorAll on the page's images
QuerySelectorAllImages(sel) ==
  CASE sel = "[data-src], [data-srcset]" -> [threw |-> FALSE, els |-> <<"i1", "i2">>]
    [] sel = ".none"                     -> [threw |-> FALSE, els |-> <<>>]
    [] OTHER                             -> [threw |-> TRUE, error |-> "SyntaxError"]

\* loadImage up to its first wait: how the promise stands ("resolved",
\* "rejected" or "pending") and the world it leaves.  observer is the
\* observer whose callback started the load, 0 for none
loadImage(W, img, observer) ==
  IF "img-loaded" \in W.imgClass[img] THEN [world |-> W, promise |-> "resolved"]
  ELSE LET W1 == [W EXCEPT !.imgClass[img] = (@ \cup {"img-loading"}) \ {"img-error"}]
           srcToLoad == IF W.imgAttr[img].dataSrc # "" THEN W.imgAttr[img].dataSrc
                        ELSE W.imgAttr[img].src
       IN IF srcToLoad = ""
            THEN [world |-> [W1 EXCEPT !.imgClass[img] =
                                         (@ \ {"img-loading"}) \cup {"img-error"}],
                  promise |-> "rejected"]
          ELSE [world |-> [W1 EXCEPT !.loads = Append(@,
                             [img |-> img, src |-> srcToLoad, observer |-> observer])],
                promise |-> "pending"]

\* the .then of the observer callback: observer.unobserve(img) and
\* observerRegistry.delete(img)
loaded(W, img, observer) ==
  IF observer = 0 THEN W
  ELSE [W EXCEPT !.observers[observer].targets = @ \ {img},
                 !.registry[img] = 0]

\* the observer callback releasing the image whatever loadImage's promise
\* settles to
settleReleasingAlways(W, load, ok) ==
  loaded(IF ok
           THEN [W EXCEPT !.imgAttr[load.img] = [dataSrc |-> "", src |-> load.src],
                          !.imgClass[load.img] =
                             (@ \ {"img-loading"}) \cup {"img-loaded"}]
         ELSE [W EXCEPT !.imgClass[load.img] = (@ \ {"img-loading"}) \cup {"img-error"}],
         load.img, load.observer)

\* loadImage after its wait: the temporary Image loaded, or failed
settle(W, load, ok) ==
  IF ok
    THEN loaded([W EXCEPT !.imgAttr[load.img] = [dataSrc |-> "", src |-> load.src],
                          !.imgClass[load.img] =
                             (@ \ {"img-loading"}) \cup {"img-loaded"}],
                load.img, load.observer)
  ELSE [W EXCEPT !.imgClass[load.img] = (@ \ {"img-loading"}) \cup {"img-error"}]

\* one entry of the observer callback's forEach
LazyEntry(W, entry, o) ==
  IF entry.isIntersecting /\ entry.target \in Imgs
    THEN LET r == loadImage(W, entry.target, o)
             W1 == [r.world EXCEPT !.started = Append(@, entry.target)]
         IN IF r.promise = "resolved" THEN loaded(W1, entry.target, o) ELSE W1
  ELSE W

RECURSIVE lazyCallback(_, _, _)
lazyCallback(W, entries, o) ==
  IF entries = <<>> THEN W
  ELSE lazyCallback(LazyEntry(W, Head(entries), o), Tail(entries), o)

\* the fallback forEach of initLazyLoading: load every image at once
RECURSIVE LoadEach(_, _)
LoadEach(W, elements) ==
  IF elements = <<>> THEN W
  ELSE LoadEach(IF Head(elements) \in Imgs
                  THEN [loadImage(W, Head(elements), 0).world
                          EXCEPT !.started = Append(@, Head(elements))]
                  ELSE W,
                Tail(elements))

\* the observing forEach of initLazyLoading
RECURSIVE LazyObserveEach(_, _, _)
LazyObserveEach(W, elements, o) ==
  IF elements = <<>> THEN W
  ELSE LazyObserveEach(IF Head(elements) \in Imgs
                         THEN [W EXCEPT !.observers[o].targets = @ \cup {Head(elements)},
                                        !.registry[Head(elements)] = o]
                         ELSE W,
                       Tail(elements), o)

\* initLazyLoading(selector, userConfig): the world it leaves and what it
\* hands to the caller
initLazyLoading(W, selector, userConfig) ==
  LET config == lazyConfig(userConfig)
      got == CASE selector.kind = "string" -> QuerySelectorAllImages(selector.sel)
               [] selector.kind \in {"nodelist", "array"} ->
                    [threw |-> FALSE, els |-> selector.items]
               [] OTHER -> [threw |-> FALSE, invalid |-> TRUE, els |-> <<>>]
  IN IF got.threw THEN [world |-> W, outcome |-> "throw", error |-> got.error]
     ELSE IF Len(got.els) = 0 THEN [world |-> W, outcome |-> "noop", observer |-> 0]
     ELSE IF ioPlatform = "none"
       THEN [world |-> LoadEach(W, got.els), outcome |-> "noop", observer |-> 0]
     ELSE LET o == Len(W.observers) + 1
              W1 == [W EXCEPT !.observers = Append(@,
                       [threshold  |-> config.threshold,
                        rootMargin |-> NormalizeMargin(<<config.rootMargin>>),
                        targets    |-> {}])]
          IN [world |-> LazyObserveEach(W1, got.els, o),
              outcome |-> "disconnect", observer |-> o]

\* the returned cleanup: observer.disconnect(); () => {} for a "noop" handle
lazyCleanup(W, handle) ==
  IF handle.kind = "noop" THEN W
  ELSE [W EXCEPT !.observers[handle.observer].targets = {}]

----------------------------------------------------------------------------
(* image-optimizer.js: the source of a picture                             *)
(* An attribute is Null (getAttribute gave null) or a string. A srcset     *)
(* carries, next to its text, the candidates parseSrcset's split, trim and *)
(* filter find in it: url and descriptor, the descriptor's number in       *)
(* tenths for x and in pixels for w. Densities and the device pixel ratio  *)
(* are in thousandths.                                                     *)

Srcset(text, candidates) == [type |-> "string", str |-> text, candidates |-> candidates]

\* JavaScript truthiness of an attribute value
Truthy(v) == v.type = "string" /\ v.str # ""

\* the normalised formats the cache may hold
Formats == {"webp", "avif", "jpeg"}

\* the formats checkFormatSupport has a test image for
testImages == {"webp", "avif"}

\* String.prototype.toLowerCase on the formats of the inputs
ToLowerCase(format) ==
  CASE format = "WEBP" -> "webp"
    [] format = "AVIF" -> "avif"
    [] OTHER -> format

\* type.split('/')[1]: "" stands for undefined
FormatOfType(type) ==
  CASE type = "image/webp" -> "webp"
    [] type = "image/WEBP" -> "WEBP"
    [] type = "image/avif" -> "avif"
    [] type = "image/jpeg" -> "jpeg"
    [] OTHER -> ""

\* checkFormatSupport(format): decodes tells, for each test image, whether
\* the browser decodes it to 1x1
checkFormatSupport(cache, format, decodes) ==
  IF format = "" THEN [cache |-> cache, supported |-> FALSE]
  ELSE LET normalizedFormat == ToLowerCase(format) IN
       IF cache[normalizedFormat] # "none"
         THEN [cache |-> cache, supported |-> cache[normalizedFormat] = "true"]
       ELSE IF normalizedFormat \notin testImages
         THEN [cache |-> [cache EXCEPT ![normalizedFormat] = "false"],
               supported |-> FALSE]
       ELSE [cache |-> [cache EXCEPT ![normalizedFormat] =
                          IF decodes[normalizedFormat] THEN "true" ELSE "false"],
             supported |-> decodes[normalizedFormat]]

\* parseSrcset: the density of a candidate
Density(candidate) ==
  CASE candidate.descriptor.unit = "x" ->
         IF candidate.descriptor.value = 0 THEN 1000
         ELSE candidate.descriptor.value * 100
    [] candidate.descriptor.unit = "w" -> candidate.descriptor.value
    [] OTHER -> 1000

\* parseSrcset without its sort: the first candidate, as written, that
\* reaches the ratio, else the last one
parseSrcsetUnsorted(srcset, dpr) ==
  IF ~Truthy(srcset) \/ srcset.candidates = <<>> THEN Null
  ELSE LET c == srcset.candidates
           ratio == IF dpr = 0 THEN 1000 ELSE dpr
           reach == { i \in 1..Len(c) : Density(c[i]) >= ratio }
       IN Str(c[IF reach # {} THEN CHOOSE i \in reach : \A j \in reach : i <= j
                ELSE Len(c)].url)

\* parseSrcset(srcset) under window.devicePixelRatio = dpr
parseSrcset(srcset, dpr) ==
  IF ~Truthy(srcset) \/ srcset.candidates = <<>> THEN Null
  ELSE LET c == srcset.candidates
           ratio == IF dpr = 0 THEN 1000 ELSE dpr
           Before(i, j) == \/ Density(c[i]) < Density(c[j])
                           \/ Density(c[i]) = Density(c[j]) /\ i < j
           reach == { i \in 1..Len(c) : Density(c[i]) >= ratio }
           match == IF reach # {}
                      THEN CHOOSE i \in reach : \A j \in reach \ {i} : Before(i, j)
                      ELSE CHOOSE i \in 1..Len(c) :
                             \A j \in (1..Len(c)) \ {i} : Before(j, i)
       IN Str(c[match].url)

\* the for loop of selectBestSource taking every typed source for supported
RECURSIVE selectFromSourcesAnyType(_, _, _, _)
selectFromSourcesAnyType(cache, sources, decodes, dpr) ==
  IF sources = <<>> THEN [cache |-> cache, found |-> FALSE]
  ELSE LET source == Head(sources) IN
       IF Truthy(source.srcset)
         THEN [cache |-> cache, found |-> TRUE,
               result |-> parseSrcset(source.srcset, dpr)]
       ELSE selectFromSourcesAnyType(cache, Tail(sources), decodes, dpr)

\* the for loop of selectBestSource
RECURSIVE selectFromSources(_, _, _, _)
selectFromSources(cache, sources, decodes, dpr) ==
  IF sources = <<>> THEN [cache |-> cache, found |-> FALSE]
  ELSE LET source == Head(sources) IN
       IF ~Truthy(source.type)
         THEN IF Truthy(source.srcset)
                THEN [cache |-> cache, found |-> TRUE,
                      result |-> parseSrcset(source.srcset, dpr)]
              ELSE selectFromSources(cache, Tail(sources), decodes, dpr)
       ELSE LET format == FormatOfType(source.type.str)
                check  == checkFormatSupport(cache, format, decodes)
            IN IF format # "" /\ check.supported /\ Truthy(source.srcset)
                 THEN [cache |-> check.cache, found |-> TRUE,
                       result |-> parseSrcset(source.srcset, dpr)]
               ELSE selectFromSources(IF format # "" THEN check.cache ELSE cache,
                                      Tail(sources), decodes, dpr)

\* selectBestSource(picture): the cache it leaves and what it resolves to
selectBestSource(cache, pic, decodes, dpr) ==
  IF pic = Null THEN [cache |-> cache, result |-> Null]
  ELSE IF pic.img = Null THEN [cache |-> cache, result |-> Null]
  ELSE LET r == selectFromSources(cache, pic.sources, decodes, dpr) IN
       IF r.found THEN [cache |-> r.cache, result |-> r.result]
       ELSE [cache |-> r.cache,
             result |-> IF Truthy(pic.img.src) THEN pic.img.src ELSE pic.img.dataSrc]

----------------------------------------------------------------------------
(* main.js: page initialisation                                            *)
(* The page has the how-it-works section and a footer. initAnimations and  *)
(* initImageOptimizer are imported by main.js from the two modules above:  *)
(* they are their registration functions applied to the page's selectors.  *)

\* config.js: the feature flag
how_it_works_enabled == TRUE

\* the page before init has run: ran lists the initialisers that returned,
\* caught tells that init's catch block has logged an error
MainPageAtLoad ==
  [ran |-> <<>>, caught |-> FALSE, howItWorksDisplay |-> "",
   footerListeners |-> FALSE, configListener |-> FALSE]

initAnimations(W, selector, options) == initScrollAnimations(W, selector, options)

initImageOptimizer(W, selector, userConfig) == initLazyLoading(W, selector, userConfig)

initHowItWorks(P) ==
  [P EXCEPT !.howItWorksDisplay = IF ~how_it_works_enabled THEN "none" ELSE @,
            !.ran = Append(@, "initHowItWorks")]

initFooter(P) ==
  [P EXCEPT !.footerListeners = TRUE, !.ran = Append(@, "initFooter")]

handleFeatureFlagChanges(P) ==
  [P EXCEPT !.configListener = TRUE, !.ran = Append(@, "handleFeatureFlagChanges")]

\* the listener of config:changed
configChanged(P, key, value) ==
  IF P.configListener /\ key = "how_it_works_enabled"
    THEN [P EXCEPT !.howItWorksDisplay = IF value THEN "" ELSE "none"]
    ELSE P

\* init: the five initialisers in one try block, the catch block logs
init(W, L, P, animation, images) ==
  LET a == initAnimations(W, animation[1], animation[2]) IN
  IF a.outcome = "throw"
    THEN [world |-> a.world, lazyWorld |-> L, animationHandle |-> Null,
          lazyHandle |-> Null, page |-> [P EXCEPT !.caught = TRUE]]
  ELSE
    LET P1 == [P EXCEPT !.ran = Append(@, "initAnimations")]
        l  == initImageOptimizer(L, images[1], images[2])
    IN IF l.outcome = "throw"
         THEN [world |-> a.world, lazyWorld |-> l.world, animationHandle |-> a,
               lazyHandle |-> Null, page |-> [P1 EXCEPT !.caught = TRUE]]
       ELSE
         [world |-> a.world, lazyWorld |-> l.world, animationHandle |-> a,
          lazyHandle |-> l,
          page |-> handleFeatureFlagChanges(initFooter(initHowItWorks(
                     [P1 EXCEPT !.ran = Append(@, "initImageOptimizer")])))]

----------------------------------------------------------------------------
(* The throttle functions                                                  *)
(* part_003's throttle keeps timeoutId and lastExecTime, part_002's keeps   *)
(* inThrottle. Times are in milliseconds; a timer is the time it is due,   *)
(* and may fire at any time from then on. executed holds, for each of the  *)
(* two throttled functions, the times of the last two executions of func.  *)

\* the delays throttle is called with
Delays == {2, 3}

\* Date.now() when the page loads: later than any delay after time 0
LoadTime == CHOOSE t \in Delays : \A d \in Delays : d <= t

NoTimer == [set |-> FALSE]

ThrottlesAtLoad ==
  [now |-> LoadTime, delay |-> 0,
   timeoutId |-> NoTimer, lastExecTime |-> 0,
   inThrottle |-> FALSE, release |-> NoTimer,
   executed |-> [byTime |-> <<>>, byFlag |-> <<>>]]

\* func.apply(this, args) at the present time
Execute(T, which) ==
  [T EXCEPT !.executed[which] =
     IF @ = <<>> THEN <<T.now>> ELSE <<@[Len(@)], T.now>>]

\* part_003: the function throttle returns
throttledByTime(T) ==
  LET currentTime == T.now IN
  IF currentTime - T.lastExecTime < T.delay
    THEN [T EXCEPT !.timeoutId = [set |-> TRUE, due |-> currentTime + T.delay,
                                  currentTime |-> currentTime]]
  ELSE Execute([T EXCEPT !.lastExecTime = currentTime], "byTime")

\* part_003: the callback of the function's setTimeout
throttledByTimeLater(T) ==
  Execute([T EXCEPT !.lastExecTime = T.timeoutId.currentTime,
                    !.timeoutId = NoTimer], "byTime")

\* part_002: executedFunction, the function throttle returns
executedFunction(T) ==
  IF ~T.inThrottle
    THEN [Execute(T, "byFlag") EXCEPT !.inThrottle = TRUE,
                                      !.release = [set |-> TRUE, due |-> T.now + T.delay]]
  ELSE T

\* part_002: the callback of executedFunction's setTimeout
releaseThrottle(T) == [T EXCEPT !.inThrottle = FALSE, !.release = NoTimer]

----------------------------------------------------------------------------
(* main.js: the application shell                                          *)
(* A world A holds APP_STATE, EventHandler and the listeners of the event  *)
(* targets. A handler is a function of the page, "h1" or "h2", or a        *)
(* closure EventHandler.on has made for a delegated registration, told     *)
(* apart by the number of closures made before it.                         *)

AppWorld ==
  [state |-> APP_STATE, listeners |-> EventHandler.listeners,
   closures |-> EventHandler.closures, dom |-> domListeners, threw |-> FALSE]

\* the targets addEventListener can be called on
EventTargets == {"window", "document", "button"}

Function(h) == [type |-> "function", fn |-> h]

Wrapped(n, selector, actualHandler) ==
  [type |-> "function", closure |-> n, selector |-> selector, fn |-> actualHandler]

\* element.addEventListener(eventType, handler): the target keeps one
\* listener for a type and callback; an object that is no EventTarget has no
\* such method
addEventListener(A, element, eventType, handler) ==
  IF element \notin EventTargets THEN [A EXCEPT !.threw = TRUE]
  ELSE [A EXCEPT !.dom = @ \cup {[element |-> element, eventType |-> eventType,
                                   handler |-> handler]}]

removeEventListener(A, element, eventType, handler) ==
  IF element \notin EventTargets THEN [A EXCEPT !.threw = TRUE]
  ELSE [A EXCEPT !.dom = @ \ {[element |-> element, eventType |-> eventType,
                                handler |-> handler]}]

\* EventHandler.on without the record that cleanup reads
onUnrecorded(A, element, eventType, selectorOrHandler, handler) ==
  LET isDelegated == selectorOrHandler.type = "string"
      actualHandler == IF isDelegated THEN handler ELSE selectorOrHandler
  IN IF element = "" \/ eventType = "" \/ actualHandler.type # "function" THEN A
     ELSE LET wrappedHandler == IF isDelegated
                                  THEN Wrapped(A.closures + 1, selectorOrHandler.str,
                                               actualHandler.fn)
                                ELSE actualHandler
              A1 == IF isDelegated THEN [A EXCEPT !.closures = @ + 1] ELSE A
              A2 == addEventListener(A1, element, eventType, wrappedHandler)
          IN IF A2.threw THEN A1 ELSE A2

\* EventHandler.on(element, eventType, selectorOrHandler, handler)
on(A, element, eventType, selectorOrHandler, handler) ==
  LET isDelegated == selectorOrHandler.type = "string"
      actualHandler == IF isDelegated THEN handler ELSE selectorOrHandler
  IN IF element = "" \/ eventType = "" \/ actualHandler.type # "function" THEN A
     ELSE LET wrappedHandler == IF isDelegated
                                  THEN Wrapped(A.closures + 1, selectorOrHandler.str,
                                               actualHandler.fn)
                                ELSE actualHandler
              A1 == IF isDelegated THEN [A EXCEPT !.closures = @ + 1] ELSE A
              A2 == addEventListener(A1, element, eventType, wrappedHandler)
          IN IF A2.threw THEN A1
             ELSE [A2 EXCEPT !.listeners =
                     Append(@, [element |-> element, eventType |-> eventType,
                                handler |-> wrappedHandler])]

\* the forEach of EventHandler.cleanup: a failing removal is logged
RECURSIVE RemoveEach(_, _)
RemoveEach(A, ls) ==
  IF ls = <<>> THEN A
  ELSE LET l == Head(ls)
           A1 == removeEventListener(A, l.element, l.eventType, l.handler)
       IN RemoveEach(IF A1.threw THEN A ELSE A1, Tail(ls))

\* EventHandler.cleanup()
eventHandlerCleanup(A) == [RemoveEach(A, A.listeners) EXCEPT !.listeners = <<>>]

\* cleanup(): the beforeunload listener of main
appCleanup(A) == eventHandlerCleanup(A)

\* Object.defineProperty(APP_STATE, 'initialized', {value, writable: false}):
\* a frozen object refuses another value for a property it has
defineInitialized(A, value) ==
  IF A.state.frozen /\ A.state.initialized # value THEN [A EXCEPT !.threw = TRUE]
  ELSE [A EXCEPT !.state.initialized = value]

\* setupErrorHandling(): two listeners on window
setupErrorHandling(A) ==
  addEventListener(addEventListener(A, "window", "error", Function("onError")),
                   "window", "unhandledrejection", Function("onRejection"))

\* initializeSmoothScroll(), all that initializeFeatures calls
initializeFeatures(A) ==
  on(A, "document", "click", Str("a[href^=#]"), Function("smoothScroll"))

\* initializeApp(): its catch block logs and throws the error again
initializeApp(A) == defineInitialized(initializeFeatures(setupErrorHandling(A)), TRUE)

\* the elements a selector of a delegated registration matches
Matches(selector, element) ==
  \/ selector = "button" /\ element = "button"
  \/ selector = "a[href^=#]" /\ element = "link"

\* the targets an event dispatched on an element reaches
PathOf(element) ==
  CASE element = "window"   -> {"window"}
    [] element = "document" -> {"document", "window"}
    [] OTHER                -> {element, "document", "window"}

\* the functions of the page that run for an event of a type on an element
Ran(dom, element, eventType) ==
  { l.handler.fn : l \in { m \in dom :
      /\ m.element \in PathOf(element)
      /\ m.eventType = eventType
      /\ "closure" \in DOMAIN m.handler =>
           Matches(m.handler.selector, element) /\ m.element \in PathOf(element) } }

----------------------------------------------------------------------------
(* part_004: the landing page                                              *)
(* A world L holds the hero section, the download buttons of the page, the *)
(* Map of handlers initDownloadButtons has filled and the cleanupFunctions *)
(* of init; ran lists the cleanup functions the last cleanup has called.   *)

LandingAtLoad ==
  [initialized |-> FALSE, heroHidden |-> FALSE, heroObserved |-> FALSE,
   buttons |-> <<>>, handlers |-> {}, cleanupFunctions |-> <<>>,
   ran |-> <<>>, threw |-> FALSE]

\* initHeroSection(): enabled is what isFeatureEnabled('hero_section')
\* returns, heroImages whether the hero holds images to load lazily
initHeroSection(L, enabled, heroImages) ==
  IF ~enabled THEN [L EXCEPT !.heroHidden = TRUE]
  ELSE IF ~heroImages THEN L
  ELSE [L EXCEPT !.heroObserved = TRUE,
                 !.cleanupFunctions = Append(@, "cleanupLazyLoading")]

\* the forEach of initDownloadButtons: getAppStoreUrl throws for the
\* platforms of noUrl
RECURSIVE InitButtons(_, _, _)
InitButtons(L, i, noUrl) ==
  IF i > Len(L.buttons) THEN L
  ELSE LET button == L.buttons[i] IN
       IF button.platform \notin {"ios", "android"} \/ button.platform \in noUrl
         THEN InitButtons(L, i + 1, noUrl)
       ELSE InitButtons([L EXCEPT !.buttons[i].href =
                                     IF button.tagName = "A" THEN button.platform ELSE @,
                                  !.buttons[i].listening = TRUE,
                                  !.handlers = @ \cup {i}], i + 1, noUrl)

\* initDownloadButtons()
initDownloadButtons(L, noUrl) ==
  IF L.buttons = <<>> THEN [L EXCEPT !.cleanupFunctions = Append(@, "noop")]
  ELSE [InitButtons(L, 1, noUrl) EXCEPT !.cleanupFunctions = Append(@, "downloadCleanup")]

\* init() of part_004
landingInit(L, enabled, heroImages, noUrl) ==
  [initDownloadButtons(initHeroSection(L, enabled, heroImages), noUrl)
     EXCEPT !.initialized = TRUE]

\* what a cleanup function does when it does not fail
Cleaned(L, fn) ==
  CASE fn = "cleanupLazyLoading" -> [L EXCEPT !.heroObserved = FALSE]
    [] fn = "downloadCleanup" ->
         [L EXCEPT !.buttons = [i \in DOMAIN @ |->
                                  IF i \in L.handlers THEN [@[i] EXCEPT !.listening = FALSE]
                                  ELSE @[i]],
                   !.handlers = {}]
    [] OTHER -> L

\* the forEach of the function init returns, without its try and catch
RECURSIVE runCleanupsUnguarded(_, _, _)
runCleanupsUnguarded(L, cleanups, fails) ==
  IF cleanups = <<>> THEN L
  ELSE LET L1 == [L EXCEPT !.ran = Append(@, Head(cleanups))] IN
       IF Head(cleanups) \in fails THEN [L1 EXCEPT !.threw = TRUE]
       ELSE runCleanupsUnguarded(Cleaned(L1, Head(cleanups)), Tail(cleanups), fails)

\* the forEach of the function init returns: the cleanup functions of
\* fails throw
RECURSIVE runCleanups(_, _, _)
runCleanups(L, cleanups, fails) ==
  IF cleanups = <<>> THEN L
  ELSE LET L1 == [L EXCEPT !.ran = Append(@, Head(cleanups))] IN
       runCleanups(IF Head(cleanups) \in fails THEN L1 ELSE Cleaned(L1, Head(cleanups)),
                   Tail(cleanups), fails)

\* the function init returns
landingCleanup(L, fails) ==
  runCleanups([L EXCEPT !.ran = <<>>, !.threw = FALSE], L.cleanupFunctions, fails)

----------------------------------------------------------------------------
(* part_003: the testimonial carousel                                      *)
(* A carousel K holds the closure of initTestimonials (currentIndex,       *)
(* slideCount, touchStartX, touchEndX) and what it shows: the transform of *)
(* the track, the active class of each dot (dots are counted from 0) and   *)
(* the disabled property of the two buttons, Null for a missing button.    *)

gap == 32

swipeThreshold == 50

MaxOf(a, b) == IF a >= b THEN a ELSE b

MinOf(a, b) == IF a <= b THEN a ELSE b

AbsOf(a) == IF a < 0 THEN 0 - a ELSE a

\* updateSlidePosition()
updateSlidePosition(K) ==
  [K EXCEPT !.transform = 0 - (K.currentIndex * (K.slideWidth + gap)),
            !.dots = [index \in DOMAIN @ |-> index = K.currentIndex],
            !.prevBtn = IF @ = Null THEN Null ELSE Bool(K.currentIndex = 0),
            !.nextBtn = IF @ = Null THEN Null ELSE Bool(K.currentIndex = K.slideCount - 1)]

\* goToSlide(index) taking the index as it is
goToSlideUnclamped(K, index) == updateSlidePosition([K EXCEPT !.currentIndex = index])

\* goToSlide(index)
goToSlide(K, index) ==
  updateSlidePosition([K EXCEPT !.currentIndex = MaxOf(0, MinOf(index, K.slideCount - 1))])

nextSlide(K) == goToSlide(K, K.currentIndex + 1)

prevSlide(K) == goToSlide(K, K.currentIndex - 1)

\* handleSwipe()
handleSwipe(K) ==
  LET diff == K.touchStartX - K.touchEndX IN
  IF AbsOf(diff) > swipeThreshold
    THEN IF diff > 0 THEN nextSlide(K) ELSE prevSlide(K)
  ELSE K

\* initTestimonials() on a page with a track and the given slides, buttons
\* and dots container; a button of the page is enabled
initTestimonials(slideCount, slideWidth, prevBtn, nextBtn, dotsContainer) ==
  IF slideCount = 0 THEN [initialized |-> FALSE]
  ELSE updateSlidePosition(
         [initialized |-> TRUE, currentIndex |-> 0, slideCount |-> slideCount,
          slideWidth |-> slideWidth, transform |-> 0,
          dots |-> IF dotsContainer THEN [index \in 0..(slideCount - 1) |-> index = 0]
                   ELSE <<>>,
          prevBtn |-> IF prevBtn THEN Bool(FALSE) ELSE Null,
          nextBtn |-> IF nextBtn THEN Bool(FALSE) ELSE Null,
          touchStartX |-> 0, touchEndX |-> 0])

----------------------------------------------------------------------------
(* Inputs                                                                  *)

Platforms == {"full", "noRatio", "none"}

DatasetInputs ==
  { [e \in Elems |-> NoData],
    [e \in Elems |-> IF e = "e1"
                       THEN [animationType |-> "fade in", animationDelay |-> "0",
                             animationDuration |-> "200"]
                       ELSE NoData] }

\* the pages: the user's motion preference and the targets' data attributes
PageInputs ==
  { <<m, d>> \in BOOLEAN \X DatasetInputs : m => \A e \in Elems : d[e] = NoData }

StringSelector(s)  == [kind |-> "string", sel |-> s]
ElementSelector(e) == [kind |-> "element", el |-> e]
ArraySelector(a)   == [kind |-> "array", items |-> a]
OtherSelector      == [kind |-> "number"]

GoodSelectors == { StringSelector(".animate"), ElementSelector("e1") }

EmptySelectors == { StringSelector(".missing"), ArraySelector(<<>>) }

BadSelectors ==
  { StringSelector("[["), ArraySelector(<<"e1", TextNode>>), OtherSelector }

NoOptions == [k \in OptionKeys |-> Absent]

FullMargin == Margin(<<0, 0, 0, 0>>)

GoodOptions ==
  { NoOptions,
    [NoOptions EXCEPT !.rootMargin = FullMargin],
    [NoOptions EXCEPT !.rootMargin = FullMargin, !.triggerOnce = Bool(FALSE)],
    [NoOptions EXCEPT !.threshold = Num(5), !.delay = Num(100)] }

BadOptions ==
  { Null,
    [NoOptions EXCEPT !.threshold = Num(150)],
    [NoOptions EXCEPT !.threshold = Str("0.5")],
    [NoOptions EXCEPT !.rootMargin = Num(0)],
    [NoOptions EXCEPT !.triggerOnce = Str("yes")],
    [NoOptions EXCEPT !.delay = Num(-1)],
    [NoOptions EXCEPT !.duration = Num(-1)],
    [NoOptions EXCEPT !.animationType = Str("spin")] }

RegistrationInputs ==
  (GoodSelectors \X GoodOptions)
    \cup (EmptySelectors \X {NoOptions, [NoOptions EXCEPT !.delay = Num(-1)]})
    \cup ({StringSelector(".animate")} \X BadOptions)
    \cup (BadSelectors \X {NoOptions})

\* what the platform may measure of a target: the ratio of its area inside
\* the root, with the isIntersecting flag of the entry
Ratios == {0, 5, 10}

\* the entries the platform may queue for a target of an observer with this
\* threshold.  It queues one when the flag or the side of the threshold
\* changes, and one after observe(); what it last reported is not kept here,
\* so an entry may repeat
EntriesFor(threshold, element) ==
  { [target |-> element, isIntersecting |-> p[1], intersectionRatio |-> p[2]] :
      p \in { q \in BOOLEAN \X Ratios :
                q[1] \in IsIntersectingOutcomes(q[2], threshold) } }

\* the batches the platform may deliver to an observer: one entry for each
\* of some of its targets, in any order
BatchesOf(observer) ==
  LET all == UNION { EntriesFor(observer.threshold, e) : e \in observer.targets } IN
  { <<x>> : x \in all }
    \cup { <<q[1], q[2]>> : q \in { r \in all \X all : r[1].target # r[2].target } }

Batches(o) == BatchesOf(observers[o])

\* the images of a page: both with a data-src
ImagesWithSource == [i \in Imgs |-> [dataSrc |-> "photo.jpg", src |-> ""]]

\* the images of a page: the second with no source at all
ImagesOneBare ==
  [i \in Imgs |-> IF i = "i2" THEN [dataSrc |-> "", src |-> ""]
                  ELSE [dataSrc |-> "photo.jpg", src |-> ""]]

ImageInputs == { ImagesWithSource, ImagesOneBare }

\* a page with no motion preference and no data attributes
PlainPage == <<FALSE, [e \in Elems |-> NoData]>>

NoLazyOptions == [k \in LazyKeys |-> Absent]

LazyOptions ==
  { NoLazyOptions,
    [NoLazyOptions EXCEPT !.threshold = Num(10)],
    [NoLazyOptions EXCEPT !.threshold = Num(150)],
    [NoLazyOptions EXCEPT !.rootMargin = Str("50px")] }

LazySelectors ==
  { StringSelector("[data-src], [data-srcset]"), StringSelector(".none"),
    StringSelector("[["), ArraySelector(<<"i1">>), ArraySelector(<<Div, "i2">>),
    ArraySelector(<<>>), OtherSelector }

LazyInputs ==
  ({ StringSelector("[data-src], [data-srcset]"), ArraySelector(<<"i1">>),
     ArraySelector(<<>>) } \X LazyOptions)
    \cup ((LazySelectors) \X {NoLazyOptions})

----------------------------------------------------------------------------
(* Actions                                                                 *)

Commit(W) ==
  /\ classList' = W.classList
  /\ style' = W.style
  /\ observers' = W.observers
  /\ globalObserver' = W.globalObserver
  /\ observerRegistry' = W.registry
  /\ timers' = W.timers

\* the page as it stands once the two modules have been evaluated, for a
\* platform, a page and images among those given
PageLoaded(platforms, pages, images) ==
  /\ ioPlatform \in platforms
  /\ \E page \in pages :
       prefersReducedMotion = page[1] /\ dataset = page[2]
  /\ classList = [e \in Elems |-> {}]
  /\ style = [e \in Elems |-> NoStyle]
  /\ observers = <<>>
  /\ globalObserver = 0
  /\ observerRegistry = [e \in Elems |-> 0]
  /\ timers = {}
  /\ handles = <<>>
  /\ imgClass = [i \in Imgs |-> {}]
  /\ imgAttr \in images
  /\ lazyObservers = <<>>
  /\ lazyRegistry = [i \in Imgs |-> 0]
  /\ loads = <<>>
  /\ lazyHandles = <<>>
  /\ mainPage = MainPageAtLoad
  /\ picture = Null
  /\ formatSupportCache = [f \in Formats |-> "none"]
  /\ throttles = ThrottlesAtLoad
  /\ APP_STATE = [initialized |-> FALSE, frozen |-> TRUE]
  /\ EventHandler = [listeners |-> <<>>, closures |-> 0]
  /\ domListeners = {}
  /\ landing = LandingAtLoad
  /\ carousel = [initialized |-> FALSE]
  /\ last = [op |-> "load"]

Init == PageLoaded(Platforms, PageInputs, {ImagesWithSource})

\* page code calls initScrollAnimations(selector, options)
CallInitScrollAnimations(selector, options) ==
  /\ Len(handles) + Len(lazyHandles) < MaxHandles
  /\ LET r == initScrollAnimations(World, selector, options) IN
     /\ Commit(r.world)
     /\ handles' = IF r.outcome = "throw" THEN handles
                   ELSE Append(handles,
                          [kind |-> r.outcome, elements |-> r.elements,
                           config |-> IF r.outcome = "handle" THEN r.config ELSE Null,
                           observer |-> IF r.outcome = "handle" THEN r.observer ELSE 0,
                           disposed |-> FALSE])
     /\ last' = [op |-> "initScrollAnimations", outcome |-> r.outcome,
                 error |-> IF r.outcome = "throw" THEN r.error ELSE "",
                 message |-> IF r.outcome = "throw" THEN r.message ELSE "",
                 handle |-> IF r.outcome = "throw" THEN 0 ELSE Len(handles) + 1]
  /\ UNCHANGED <<envVars, lazyVars>>

\* the platform delivers a batch of entries to the callback of observer o
DeliverEntries(o, entries) ==
  /\ LET W == handleIntersection(World, entries, o, observers[o].config) IN
     /\ Commit(W)
     /\ last' = [op |-> "handleIntersection", observer |-> o,
                 threw |-> W.threw, applied |-> W.applied, removed |-> W.removed]
  /\ UNCHANGED <<envVars, handles, lazyVars>>

\* a timer set by applyAnimation expires
FireTimer(timer) ==
  /\ LET W == timerCallback([World EXCEPT !.timers = @ \ {timer}], timer) IN
     /\ Commit(W)
     /\ last' = [op |-> "timer", element |-> timer.element, threw |-> W.threw]
  /\ UNCHANGED <<envVars, handles, lazyVars>>

\* page code calls handle.cleanup()
CallCleanup(h) ==
  /\ LET W == cleanup(World, handles[h]) IN
     /\ Commit(W)
     /\ last' = [op |-> "cleanup", handle |-> h, threw |-> W.threw,
                 again |-> handles[h].disposed]
  /\ handles' = [handles EXCEPT ![h].disposed = TRUE]
  /\ UNCHANGED <<envVars, lazyVars>>

CommitLazy(W) ==
  /\ imgClass' = W.imgClass
  /\ imgAttr' = W.imgAttr
  /\ lazyObservers' = W.observers
  /\ lazyRegistry' = W.registry
  /\ loads' = W.loads

\* page code calls initLazyLoading(selector, userConfig)
CallInitLazyLoading(selector, userConfig) ==
  /\ Len(handles) + Len(lazyHandles) < MaxHandles
  /\ LET r == initLazyLoading(LazyWorld, selector, userConfig) IN
     /\ Len(r.world.loads) <= MaxLoads
     /\ CommitLazy(r.world)
     /\ lazyHandles' = IF r.outcome = "throw" THEN lazyHandles
                       ELSE Append(lazyHandles,
                              [kind |-> r.outcome, observer |-> r.observer,
                               disposed |-> FALSE])
     /\ last' = [op |-> "initLazyLoading", outcome |-> r.outcome,
                 error |-> IF r.outcome = "throw" THEN r.error ELSE "",
                 handle |-> IF r.outcome = "throw" THEN 0 ELSE Len(lazyHandles) + 1,
                 started |-> r.world.started]
  /\ UNCHANGED <<envVars, animVars>>

\* the platform delivers a batch of entries to the callback of lazy observer o
DeliverLazyEntries(o, entries) ==
  /\ LET W == lazyCallback(LazyWorld, entries, o) IN
     /\ Len(W.loads) <= MaxLoads
     /\ CommitLazy(W)
     /\ last' = [op |-> "lazyCallback", observer |-> o, threw |-> W.threw,
                 started |-> W.started]
  /\ UNCHANGED <<envVars, animVars, lazyHandles>>

\* the temporary Image of the k-th load in flight fires onload or onerror
SettleLoad(k, ok) ==
  /\ LET W == settle([LazyWorld EXCEPT !.loads =
                        SubSeq(@, 1, k - 1) \o SubSeq(@, k + 1, Len(@))],
                     loads[k], ok) IN
     /\ CommitLazy(W)
     /\ last' = [op |-> "settle", img |-> loads[k].img, ok |-> ok,
                 observer |-> loads[k].observer]
  /\ UNCHANGED <<envVars, animVars, lazyHandles>>

\* page code calls the cleanup function initLazyLoading returned
CallLazyCleanup(h) ==
  /\ CommitLazy(lazyCleanup(LazyWorld, lazyHandles[h]))
  /\ last' = [op |-> "lazyCleanup", handle |-> h, again |-> lazyHandles[h].disposed]
  /\ lazyHandles' = [lazyHandles EXCEPT ![h].disposed = TRUE]
  /\ UNCHANGED <<envVars, animVars>>

Next ==
  \/ \E in \in RegistrationInputs : CallInitScrollAnimations(in[1], in[2])
  \/ \E o \in 1..Len(observers) : \E entries \in Batches(o) : DeliverEntries(o, entries)
  \/ \E timer \in timers : FireTimer(timer)
  \/ \E h \in 1..Len(handles) : CallCleanup(h)

Spec == Init /\ [][Next]_vars

\* lazy loading alone
InitLazy == PageLoaded(Platforms, {PlainPage}, ImageInputs)

NextLazy ==
  \/ \E in \in LazyInputs : CallInitLazyLoading(in[1], in[2])
  \/ \E o \in 1..Len(lazyObservers) : \E entries \in BatchesOf(lazyObservers[o]) :
       DeliverLazyEntries(o, entries)
  \/ \E k \in 1..Len(loads) : \E ok \in BOOLEAN : SettleLoad(k, ok)
  \/ \E h \in 1..Len(lazyHandles) : CallLazyCleanup(h)

SpecLazy == InitLazy /\ [][NextLazy]_vars

\* a user who prefers reduced motion, on a platform with IntersectionObserver:
\* applyAnimation sets no timer
InitReduced == PageLoaded({"full"}, {TRUE} \X DatasetInputs, {ImagesWithSource})

ReducedInputs ==
  {StringSelector(".animate")} \X
    { NoOptions,
      [NoOptions EXCEPT !.threshold = Num(5), !.delay = Num(100)],
      [NoOptions EXCEPT !.rootMargin = FullMargin, !.triggerOnce = Bool(FALSE)] }

NextReduced ==
  \/ \E in \in ReducedInputs : CallInitScrollAnimations(in[1], in[2])
  \/ \E o \in 1..Len(observers) : \E entries \in Batches(o) : DeliverEntries(o, entries)
  \/ \E h \in 1..Len(handles) : CallCleanup(h)

SpecReduced == InitReduced /\ [][NextReduced]_vars

\* a platform without IntersectionObserver: neither module creates an
\* observer, so no entry is delivered and no timer is set
InitFallback == PageLoaded({"none"}, PageInputs, ImageInputs)

NextFallback ==
  \/ \E in \in RegistrationInputs : CallInitScrollAnimations(in[1], in[2])
  \/ \E h \in 1..Len(handles) : CallCleanup(h)
  \/ \E in \in LazyInputs : CallInitLazyLoading(in[1], in[2])
  \/ \E k \in 1..Len(loads) : \E ok \in BOOLEAN : SettleLoad(k, ok)
  \/ \E h \in 1..Len(lazyHandles) : CallLazyCleanup(h)

SpecFallback == InitFallback /\ [][NextFallback]_vars

\* registrations of one target and one image with all that follows them,
\* up to their cleanups, on a platform with IntersectionObserver
InitCleanup == PageLoaded({"full"}, {PlainPage}, {ImagesWithSource})

CleanupInputs ==
  {ElementSelector("e1")} \X
    { NoOptions,
      [NoOptions EXCEPT !.threshold = Num(5), !.delay = Num(100)],
      [NoOptions EXCEPT !.rootMargin = FullMargin, !.triggerOnce = Bool(FALSE)] }

NextCleanup ==
  \/ \E in \in CleanupInputs : CallInitScrollAnimations(in[1], in[2])
  \/ \E o \in 1..Len(observers) : \E entries \in Batches(o) : DeliverEntries(o, entries)
  \/ \E timer \in timers : FireTimer(timer)
  \/ \E h \in 1..Len(handles) : CallCleanup(h)
  \/ CallInitLazyLoading(ArraySelector(<<"i1">>), NoLazyOptions)
  \/ \E o \in 1..Len(lazyObservers) : \E entries \in BatchesOf(lazyObservers[o]) :
       DeliverLazyEntries(o, entries)
  \/ \E k \in 1..Len(loads) : \E ok \in BOOLEAN : SettleLoad(k, ok)
  \/ \E h \in 1..Len(lazyHandles) : CallLazyCleanup(h)

SpecCleanup == InitCleanup /\ [][NextCleanup]_vars

\* the sources a picture may hold
SourceTypes == { Null, Str("image/webp"), Str("image/jpeg") }

SourceSrcsets ==
  { Null,
    Srcset(" ", <<>>),
    Srcset("a.webp", <<[url |-> "a.webp", descriptor |-> [unit |-> "", value |-> 0]]>>),
    Srcset("b.webp 1x, c.webp 2x",
           <<[url |-> "b.webp", descriptor |-> [unit |-> "x", value |-> 10]],
             [url |-> "c.webp", descriptor |-> [unit |-> "x", value |-> 20]]>>) }

SourceInputs == [type : SourceTypes, srcset : SourceSrcsets]

\* the img of a picture: its src and data-src attributes
ImgInputs ==
  { [src |-> Null, dataSrc |-> Null],
    [src |-> Str("s.jpg"), dataSrc |-> Str("d.jpg")],
    [src |-> Null, dataSrc |-> Str("d.jpg")],
    [src |-> Str(""), dataSrc |-> Str("d.jpg")] }

SourceLists == UNION { [1..n -> SourceInputs] : n \in 0..MaxSources }

PictureInputs == [sources : SourceLists, img : ImgInputs]

\* window.devicePixelRatio, in thousandths
PixelRatios == {1000, 2000}

\* what the browser decodes: neither test image, WebP alone, or both
DecodeInputs ==
  { d \in [testImages -> BOOLEAN] : d["avif"] => d["webp"] }

\* the page gets its picture
InsertPicture(pic) ==
  /\ picture = Null
  /\ picture' = pic
  /\ last' = [op |-> "insertPicture"]
  /\ UNCHANGED <<ioPlatform, prefersReducedMotion, dataset, mainPage,
                 formatSupportCache, utilVars, animVars, lazyVars>>

\* page code calls selectBestSource(picture) and awaits it
CallSelectBestSource(decodes, dpr) ==
  /\ LET r == selectBestSource(formatSupportCache, picture, decodes, dpr) IN
     /\ formatSupportCache' = r.cache
     /\ last' = [op |-> "selectBestSource", result |-> r.result, dpr |-> dpr]
  /\ UNCHANGED <<ioPlatform, prefersReducedMotion, dataset, mainPage, picture,
                 utilVars, animVars, lazyVars>>

\* page code calls checkFormatSupport(format) and awaits it
CallCheckFormatSupport(format, decodes) ==
  /\ LET r == checkFormatSupport(formatSupportCache, format, decodes) IN
     /\ formatSupportCache' = r.cache
     /\ last' = [op |-> "checkFormatSupport", format |-> format,
                 supported |-> r.supported]
  /\ UNCHANGED <<ioPlatform, prefersReducedMotion, dataset, mainPage, picture,
                 utilVars, animVars, lazyVars>>

\* the selection of a picture's source
InitSource == PageLoaded({"full"}, {PlainPage}, {ImagesWithSource})

NextSource ==
  \/ \E pic \in PictureInputs : InsertPicture(pic)
  \/ \E decodes \in DecodeInputs : \E dpr \in PixelRatios :
       CallSelectBestSource(decodes, dpr)
  \/ \E format \in {"WEBP", ""} : \E decodes \in DecodeInputs :
       CallCheckFormatSupport(format, decodes)

SpecSource == InitSource /\ [][NextSource]_vars

\* the density descriptors of a candidate: none, 1x, 1.5x, 2x, 3x
DensityDescriptors ==
  { [unit |-> "", value |-> 0] } \cup { [unit |-> "x", value |-> v] : v \in {10, 15, 20, 30} }

\* the srcsets handed to parseSrcset: no string, empty, blank, and every
\* list of candidates, the i-th with the url ui
SrcsetInputs ==
  { Null, Srcset("", <<>>), Srcset(" ", <<>>) }
    \cup { Srcset("candidates",
                  [i \in 1..n |-> [url |-> "u" \o ToString(i), descriptor |-> d[i]]]) :
             n \in 1..MaxCandidates, d \in [1..MaxCandidates -> DensityDescriptors] }

\* window.devicePixelRatio in thousandths, 0 for a window without one
DevicePixelRatios == {0, 1000, 1500, 2000}

\* page code calls parseSrcset(srcset)
CallParseSrcset(srcset, dpr) ==
  /\ last' = [op |-> "parseSrcset", srcset |-> srcset, dpr |-> dpr,
              result |-> parseSrcset(srcset, dpr)]
  /\ UNCHANGED <<envVars, animVars, lazyVars>>

\* parseSrcset on every srcset and ratio
InitSrcset == PageLoaded({"full"}, {PlainPage}, {ImagesWithSource})

NextSrcset ==
  \E srcset \in SrcsetInputs : \E dpr \in DevicePixelRatios : CallParseSrcset(srcset, dpr)

SpecSrcset == InitSrcset /\ [][NextSrcset]_vars

CommitApp(A) ==
  /\ APP_STATE' = A.state
  /\ EventHandler' = [listeners |-> A.listeners, closures |-> A.closures]
  /\ domListeners' = A.dom

\* main(): initializeApp() once the DOM is ready
CallInitializeApp ==
  /\ domListeners = {} /\ EventHandler.closures = 0
  /\ LET A == initializeApp(AppWorld) IN
     /\ CommitApp(A)
     /\ last' = [op |-> "initializeApp", threw |-> A.threw]
  /\ UNCHANGED <<coreVars, throttles, landing, carousel>>

\* what page code may hand to EventHandler.on: "" is a missing element or
\* type, "plain" an object that is no EventTarget
OnInputs ==
  {"", "plain", "document", "button"} \X {"", "click"}
    \X { Null, Function("h1"), Function("h2"), Str("button"), Str(".none") }
    \X { Null, Function("h1") }

\* page code calls EventHandler.on(element, eventType, selectorOrHandler, handler)
CallOn(element, eventType, selectorOrHandler, handler) ==
  /\ EventHandler.closures < MaxOn + 1
  /\ Len(EventHandler.listeners) < MaxOn + 1
  /\ LET A == on(AppWorld, element, eventType, selectorOrHandler, handler) IN
     /\ CommitApp(A)
     /\ last' = [op |-> "on", added |-> Len(A.listeners) > Len(EventHandler.listeners)]
  /\ UNCHANGED <<coreVars, throttles, landing, carousel>>

\* beforeunload, or page code: cleanup()
CallAppCleanup ==
  /\ LET A == appCleanup(AppWorld) IN
     /\ CommitApp(A)
     /\ last' = [op |-> "appCleanup", threw |-> A.threw,
                 direct |-> \E l \in domListeners \ A.dom :
                              "closure" \notin DOMAIN l.handler,
                 delegated |-> \E l \in domListeners \ A.dom :
                                 /\ "closure" \in DOMAIN l.handler
                                 /\ l.handler.fn \in {"h1", "h2"}]
  /\ UNCHANGED <<coreVars, throttles, landing, carousel>>

\* the platform dispatches an event on an element
DispatchEvent(element, eventType) ==
  /\ last' = [op |-> "dispatch", element |-> element, eventType |-> eventType,
              ran |-> Ran(domListeners, element, eventType)]
  /\ UNCHANGED <<coreVars, utilVars>>

\* the application shell of main.js
InitApp == PageLoaded({"full"}, {PlainPage}, {ImagesWithSource})

NextApp ==
  \/ CallInitializeApp
  \/ \E in \in OnInputs : CallOn(in[1], in[2], in[3], in[4])
  \/ CallAppCleanup
  \/ \E element \in {"document", "button", "link"} : \E eventType \in {"click", "error"} :
       DispatchEvent(element, eventType)

SpecApp == InitApp /\ [][NextApp]_vars

\* the elements with a data-download-platform attribute a page may hold
ButtonInputs ==
  [tagName : {"A", "BUTTON"}, platform : {"ios", "android", "web", ""},
   href : {""}, listening : {FALSE}]

\* the page is built with a download button more
InsertButton(button) ==
  /\ ~landing.initialized
  /\ Len(landing.buttons) < MaxButtons
  /\ landing' = [landing EXCEPT !.buttons = Append(@, button)]
  /\ last' = [op |-> "insertButton"]
  /\ UNCHANGED <<coreVars, throttles, APP_STATE, EventHandler, domListeners, carousel>>

\* the module of part_004 calls init() once the DOM is ready
CallLandingInit(enabled, heroImages, noUrl) ==
  /\ ~landing.initialized
  /\ landing' = landingInit(landing, enabled, heroImages, noUrl)
  /\ last' = [op |-> "landingInit"]
  /\ UNCHANGED <<coreVars, throttles, APP_STATE, EventHandler, domListeners, carousel>>

\* page code calls the function init has returned
CallLandingCleanup(fails) ==
  /\ landing.initialized
  /\ landing' = landingCleanup(landing, fails)
  /\ last' = [op |-> "landingCleanup", fails |-> fails]
  /\ UNCHANGED <<coreVars, throttles, APP_STATE, EventHandler, domListeners, carousel>>

\* the visitor clicks a download button
ClickButton(i) ==
  /\ i \in DOMAIN landing.buttons
  /\ last' = [op |-> "click", tracked |-> landing.buttons[i].listening]
  /\ UNCHANGED <<coreVars, utilVars>>

\* the landing page of part_004
InitLanding == PageLoaded({"full"}, {PlainPage}, {ImagesWithSource})

NextLanding ==
  \/ \E button \in ButtonInputs : InsertButton(button)
  \/ \E enabled \in BOOLEAN : \E heroImages \in BOOLEAN :
       \E noUrl \in SUBSET {"android"} : CallLandingInit(enabled, heroImages, noUrl)
  \/ \E fails \in SUBSET {"cleanupLazyLoading", "downloadCleanup"} :
       CallLandingCleanup(fails)
  \/ \E i \in 1..MaxButtons : ClickButton(i)

SpecLanding == InitLanding /\ [][NextLanding]_vars

\* the DOMContentLoaded handler of part_003 calls initTestimonials()
CallInitTestimonials(slideCount, slideWidth, prevBtn, nextBtn, dotsContainer) ==
  /\ ~carousel.initialized
  /\ carousel' = initTestimonials(slideCount, slideWidth, prevBtn, nextBtn, dotsContainer)
  /\ last' = [op |-> "initTestimonials", slideCount |-> slideCount]
  /\ UNCHANGED <<coreVars, throttles, APP_STATE, EventHandler, domListeners, landing>>

\* a click on the next button; a disabled button gets no click
ClickNext ==
  /\ carousel.initialized
  /\ carousel.nextBtn = Bool(FALSE)
  /\ carousel' = nextSlide(carousel)
  /\ last' = [op |-> "next"]
  /\ UNCHANGED <<coreVars, throttles, APP_STATE, EventHandler, domListeners, landing>>

\* a click on the previous button
ClickPrev ==
  /\ carousel.initialized
  /\ carousel.prevBtn = Bool(FALSE)
  /\ carousel' = prevSlide(carousel)
  /\ last' = [op |-> "previous"]
  /\ UNCHANGED <<coreVars, throttles, APP_STATE, EventHandler, domListeners, landing>>

\* a click on a dot
ClickDot(index) ==
  /\ carousel.initialized
  /\ index \in DOMAIN carousel.dots
  /\ carousel' = goToSlide(carousel, index)
  /\ last' = [op |-> "dot", index |-> index]
  /\ UNCHANGED <<coreVars, throttles, APP_STATE, EventHandler, domListeners, landing>>

\* a keydown on the track
KeyDown(key) ==
  /\ carousel.initialized
  /\ carousel' = CASE key = "ArrowLeft"  -> prevSlide(carousel)
                    [] key = "ArrowRight" -> nextSlide(carousel)
                    [] OTHER              -> carousel
  /\ last' = [op |-> "keydown", key |-> key]
  /\ UNCHANGED <<coreVars, throttles, APP_STATE, EventHandler, domListeners, landing>>

\* a touchstart on the track
TouchStart(screenX) ==
  /\ carousel.initialized
  /\ carousel' = [carousel EXCEPT !.touchStartX = screenX]
  /\ last' = [op |-> "touchstart"]
  /\ UNCHANGED <<coreVars, throttles, APP_STATE, EventHandler, domListeners, landing>>

\* a touchend on the track
TouchEnd(screenX) ==
  /\ carousel.initialized
  /\ carousel' = handleSwipe([carousel EXCEPT !.touchEndX = screenX])
  /\ last' = [op |-> "touchend", from |-> carousel.currentIndex]
  /\ UNCHANGED <<coreVars, throttles, APP_STATE, EventHandler, domListeners, landing>>

\* where a finger may touch the screen
ScreenXs == {0, 50, 51, 120}

\* the testimonial carousel of part_003
InitCarousel == PageLoaded({"full"}, {PlainPage}, {ImagesWithSource})

NextCarousel ==
  \/ \E slideCount \in 0..MaxSlides : \E slideWidth \in {0, 300} :
       \E prevBtn \in BOOLEAN : \E nextBtn \in BOOLEAN : \E dotsContainer \in BOOLEAN :
         CallInitTestimonials(slideCount, slideWidth, prevBtn, nextBtn, dotsContainer)
  \/ ClickNext
  \/ ClickPrev
  \/ \E index \in 0..(MaxSlides - 1) : ClickDot(index)
  \/ \E key \in {"ArrowLeft", "ArrowRight", "Enter"} : KeyDown(key)
  \/ \E screenX \in ScreenXs : TouchStart(screenX)
  \/ \E screenX \in ScreenXs : TouchEnd(screenX)

SpecCarousel == InitCarousel /\ [][NextCarousel]_vars

\* page code calls throttle(func, delay) of part_003 and of part_002
CallThrottle(delay) ==
  /\ throttles.delay = 0
  /\ throttles' = [throttles EXCEPT !.delay = delay]
  /\ last' = [op |-> "throttle", delay |-> delay]
  /\ UNCHANGED <<coreVars, APP_STATE, EventHandler, domListeners, landing, carousel>>

\* a millisecond passes
Tick ==
  /\ throttles.now < LoadTime + MaxTime
  /\ throttles' = [throttles EXCEPT !.now = @ + 1]
  /\ last' = [op |-> "tick"]
  /\ UNCHANGED <<coreVars, APP_STATE, EventHandler, domListeners, landing, carousel>>

\* the page calls the throttled function of part_003
CallThrottledByTime ==
  /\ throttles.delay # 0
  /\ throttles' = throttledByTime(throttles)
  /\ last' = [op |-> "throttledByTime"]
  /\ UNCHANGED <<coreVars, APP_STATE, EventHandler, domListeners, landing, carousel>>

\* the timer of part_003's throttled function fires
FireThrottledByTime ==
  /\ throttles.timeoutId.set /\ throttles.timeoutId.due <= throttles.now
  /\ throttles' = throttledByTimeLater(throttles)
  /\ last' = [op |-> "throttledByTimeLater"]
  /\ UNCHANGED <<coreVars, APP_STATE, EventHandler, domListeners, landing, carousel>>

\* the page calls the throttled function of part_002
CallExecutedFunction ==
  /\ throttles.delay # 0
  /\ throttles' = executedFunction(throttles)
  /\ last' = [op |-> "executedFunction"]
  /\ UNCHANGED <<coreVars, APP_STATE, EventHandler, domListeners, landing, carousel>>

\* the timer of part_002's throttled function fires
FireReleaseThrottle ==
  /\ throttles.release.set /\ throttles.release.due <= throttles.now
  /\ throttles' = releaseThrottle(throttles)
  /\ last' = [op |-> "releaseThrottle"]
  /\ UNCHANGED <<coreVars, APP_STATE, EventHandler, domListeners, landing, carousel>>

\* the throttled functions under calls at any time
InitThrottle == PageLoaded({"full"}, {PlainPage}, {ImagesWithSource})

NextThrottle ==
  \/ \E delay \in Delays : CallThrottle(delay)
  \/ Tick
  \/ CallThrottledByTime
  \/ FireThrottledByTime
  \/ CallExecutedFunction
  \/ FireReleaseThrottle

SpecThrottle == InitThrottle /\ [][NextThrottle]_vars

\* the loads of lazily loaded images: registrations of the page's images,
\* entries, loads settling and cleanups, with IntersectionObserver present
InitLoad == PageLoaded({"full"}, {PlainPage}, ImageInputs)

LoadInputs ==
  {StringSelector("[data-src], [data-srcset]")} \X {NoLazyOptions}

NextLoad ==
  \/ \E in \in LoadInputs : CallInitLazyLoading(in[1], in[2])
  \/ \E o \in 1..Len(lazyObservers) : \E entries \in BatchesOf(lazyObservers[o]) :
       DeliverLazyEntries(o, entries)
  \/ \E k \in 1..Len(loads) : \E ok \in BOOLEAN : SettleLoad(k, ok)
  \/ \E h \in 1..Len(lazyHandles) : CallLazyCleanup(h)

SpecLoad == InitLoad /\ [][NextLoad]_vars

\* DOMContentLoaded: main.js runs init, once
CallInit(animation, images) ==
  /\ mainPage = MainPageAtLoad
  /\ handles = <<>> /\ lazyHandles = <<>>
  /\ LET r == init(World, LazyWorld, mainPage, animation, images) IN
     /\ Commit(r.world)
     /\ CommitLazy(r.lazyWorld)
     /\ mainPage' = r.page
     /\ handles' = IF r.animationHandle = Null THEN handles
                   ELSE <<[kind |-> r.animationHandle.outcome,
                           elements |-> r.animationHandle.elements,
                           config |-> IF r.animationHandle.outcome = "handle"
                                        THEN r.animationHandle.config ELSE Null,
                           observer |-> IF r.animationHandle.outcome = "handle"
                                          THEN r.animationHandle.observer ELSE 0,
                           disposed |-> FALSE]>>
     /\ lazyHandles' = IF r.lazyHandle = Null THEN lazyHandles
                       ELSE <<[kind |-> r.lazyHandle.outcome,
                               observer |-> r.lazyHandle.observer,
                               disposed |-> FALSE]>>
     /\ last' = [op |-> "init", caught |-> r.page.caught]
  /\ UNCHANGED <<ioPlatform, prefersReducedMotion, dataset, picture,
                 formatSupportCache, utilVars>>

\* the page dispatches config:changed on window
DispatchConfigChanged(key, value) ==
  /\ mainPage' = configChanged(mainPage, key, value)
  /\ last' = [op |-> "config:changed", key |-> key, value |-> value]
  /\ UNCHANGED <<ioPlatform, prefersReducedMotion, dataset, picture,
                 formatSupportCache, utilVars, animVars, lazyVars>>

\* the selectors and options initAnimations and initImageOptimizer may pass
InitAnimationInputs ==
  { <<StringSelector(".animate"), NoOptions>>,
    <<StringSelector(".animate"), [NoOptions EXCEPT !.delay = Num(100)]>>,
    <<StringSelector(".missing"), NoOptions>>,
    <<StringSelector("[["), NoOptions>>,
    <<StringSelector(".animate"), [NoOptions EXCEPT !.threshold = Num(15)]>> }

InitImageInputs ==
  { <<StringSelector("[data-src], [data-srcset]"), NoLazyOptions>>,
    <<StringSelector("[["), NoLazyOptions>> }

ConfigKeys == {"how_it_works_enabled", "debug"}

\* the page of main.js from load on
InitMain == PageLoaded({"full"}, {PlainPage}, {ImagesWithSource})

NextMain ==
  \/ \E animation \in InitAnimationInputs : \E images \in InitImageInputs :
       CallInit(animation, images)
  \/ \E key \in ConfigKeys : \E value \in BOOLEAN : DispatchConfigChanged(key, value)
  \/ \E o \in 1..Len(observers) : \E entries \in Batches(o) : DeliverEntries(o, entries)
  \/ \E timer \in timers : FireTimer(timer)
  \/ \E o \in 1..Len(lazyObservers) : \E entries \in BatchesOf(lazyObservers[o]) :
       DeliverLazyEntries(o, entries)
  \/ \E k \in 1..Len(loads) : \E ok \in BOOLEAN : SettleLoad(k, ok)

SpecMain == InitMain /\ [][NextMain]_vars

\* the registrations and cleanups of both modules, on every platform
InitRegister == PageLoaded(Platforms, {PlainPage}, {ImagesWithSource})

NextRegister ==
  \/ \E in \in RegistrationInputs : CallInitScrollAnimations(in[1], in[2])
  \/ \E h \in 1..Len(handles) : CallCleanup(h)
  \/ \E in \in LazyInputs : CallInitLazyLoading(in[1], in[2])
  \/ \E h \in 1..Len(lazyHandles) : CallLazyCleanup(h)

SpecRegister == InitRegister /\ [][NextRegister]_vars

----------------------------------------------------------------------------
(* Properties                                                              *)

Range(s) == { s[i] : i \in 1..Len(s) }

\* the registrations that observe element e
Registrations(e) ==
  { h \in 1..Len(handles) :
      handles[h].kind = "handle" /\ e \in Range(handles[h].elements) }

\* e was registered and every registration of e has been cleaned up
AllDisposed(e) ==
  Registrations(e) # {} /\ \A h \in Registrations(e) : handles[h].disposed

\* the final state of an animation target
Activated(e) ==
  "visible" \in classList[e] /\ style[e].opacity = "1" /\ style[e].transform = "none"

\* the options the documentation of initScrollAnimations allows
ValidOptions(options) ==
  /\ DOMAIN options = OptionKeys
  /\ options.threshold # Absent =>
       options.threshold.type = "number" /\ options.threshold.num \in 0..100
  /\ options.rootMargin # Absent => options.rootMargin.type = "string"
  /\ options.triggerOnce # Absent => options.triggerOnce.type = "boolean"
  /\ options.delay # Absent => options.delay.type = "number" /\ options.delay.num >= 0
  /\ options.duration # Absent =>
       options.duration.type = "number" /\ options.duration.num >= 0
  /\ options.animationType # Absent =>
       options.animationType.type = "string"
         /\ options.animationType.str \in AnimationType

\* the options the documentation of initLazyLoading allows
ValidLazyOptions(userConfig) ==
  /\ userConfig.rootMargin # Absent =>
       userConfig.rootMargin.type = "number" /\ userConfig.rootMargin.num >= 0
  /\ userConfig.threshold # Absent =>
       userConfig.threshold.type = "number" /\ userConfig.threshold.num \in 0..100

\* the images a lazy-loading selector names
ImagesOf(selector) ==
  CASE selector.kind = "string" /\ selector.sel = "[data-src], [data-srcset]" -> Imgs
    [] selector.kind \in {"nodelist", "array"} -> Range(selector.items) \cap Imgs
    [] OTHER -> {}

EmptyLazySelectors == { StringSelector(".none"), ArraySelector(<<>>) }

AnimationWorldUnchanged ==
  UNCHANGED <<classList, style, observers, globalObserver, observerRegistry, timers>>

LazyWorldUnchanged ==
  UNCHANGED <<imgClass, imgAttr, lazyObservers, lazyRegistry, loads>>

\* C1: with triggerOnce=true the effect fires once, on the first entry, and
\* the element is unobserved in the same callback: whenever a callback that
\* returns normally has applied the effect to an element whose every
\* registration asked for triggerOnce=true, its observer no longer observes
\* that element.
C1_TriggerOnceUnobserves ==
  last.op = "handleIntersection" /\ ~last.threw =>
    \A e \in Range(last.applied) :
      (Registrations(e) # {} /\ \A h \in Registrations(e) : handles[h].config.triggerOnce)
        => e \notin observers[last.observer].targets

\* C2: with triggerOnce=false the element stays observed while the effect is
\* applied on each entry and removed on each exit: whenever a callback that
\* returns normally has applied the effect to an element whose every
\* registration asked for triggerOnce=false, its observer still observes it.
C2_RepeatingStaysObserved ==
  last.op = "handleIntersection" /\ ~last.threw =>
    \A e \in Range(last.applied) :
      (Registrations(e) # {} /\ \A h \in Registrations(e) : ~handles[h].config.triggerOnce)
        => e \in observers[last.observer].targets

\* C3: the effect fires if and only if the intersection ratio is at least
\* the threshold: in every callback that returns normally, the target of an
\* entry has the effect applied exactly when the entry's ratio has reached
\* the threshold of the observer.
C3_ActivationIffRatioReachesThreshold ==
  [][\A o \in 1..Len(observers) : \A entries \in Batches(o) :
       DeliverEntries(o, entries) /\ ~last'.threw =>
         \A i \in 1..Len(entries) :
           (entries[i].target \in Range(last'.applied))
             <=> (entries[i].intersectionRatio >= observers[o].threshold)]_vars

C5_NoActivationAfterCleanup ==
  last.op = "handleIntersection" =>
    \A e \in Range(last.applied) : ~AllDisposed(e)

\* C6: no activation in flight changes an element after cleanup: a timer of
\* applyAnimation never adds its classes to an element whose every
\* registration has been cleaned up, and no image load settles for an
\* observer whose cleanup has been called.
C6_NoInFlightActivationAfterCleanup ==
  /\ last.op = "timer" /\ ~last.threw => ~AllDisposed(last.element)
  /\ last.op = "settle" /\ last.observer # 0 =>
       \A h \in 1..Len(lazyHandles) :
         lazyHandles[h].observer = last.observer => ~lazyHandles[h].disposed

C9_InvalidOptionsAlwaysReported ==
  [][/\ \A in \in RegistrationInputs :
          CallInitScrollAnimations(in[1], in[2]) /\ ~ValidOptions(in[2]) =>
            last'.outcome = "throw" /\ UNCHANGED animVars
     /\ \A in \in LazyInputs :
          CallInitLazyLoading(in[1], in[2]) /\ ~ValidLazyOptions(in[2]) =>
            last'.outcome = "throw" /\ UNCHANGED lazyVars]_vars

\* C9 amended: on a platform with IntersectionObserver every
\* initScrollAnimations call whose options fail validation throws a
\* TypeError and changes nothing.
C9_InvalidOptionsThrow ==
  [][\A in \in RegistrationInputs :
       /\ CallInitScrollAnimations(in[1], in[2])
       /\ isIntersectionObserverSupported
       /\ ~ValidOptions(in[2])
       => last'.outcome = "throw" /\ last'.error = "TypeError" /\ UNCHANGED animVars]_vars

\* initScrollAnimations has thrown for a threshold out of range while an
\* earlier registration stands
C9_Witness ==
  /\ isIntersectionObserverSupported
  /\ last.op = "initScrollAnimations"
  /\ last.outcome = "throw"
  /\ last.message = "threshold must be a number between 0 and 1"
  /\ Len(handles) > 0

\* C10: a failure on one element of a batch is caught and the remaining
\* elements are still processed: no callback lets an exception escape, and
\* every entering target of the batch has the effect applied.
C10_BatchSurvivesFailure ==
  [][\A o \in 1..Len(observers) : \A entries \in Batches(o) :
       DeliverEntries(o, entries) =>
         /\ ~last'.threw
         /\ \A i \in 1..Len(entries) :
              entries[i].isIntersecting => entries[i].target \in Range(last'.applied)]_vars

Watchers(e) == { o \in 1..Len(observers) : e \in observers[o].targets }

\* C12: in every reachable state each element is observed by at most one
\* observer, and the registry names the observer that observes it.
C12_AtMostOneWatcher ==
  \A e \in Elems :
    /\ Cardinality(Watchers(e)) <= 1
    /\ Watchers(e) # {} => Watchers(e) = {observerRegistry[e]}

\* C13: on a shared observer each element is activated under the policy of
\* its own registration: whenever a callback that returns normally has
\* applied the effect to an element with a single, live registration, the
\* element is unobserved exactly when that registration asked for
\* triggerOnce, and (the user accepting motion) it carries the duration of
\* that registration and, without delay, its animation class.
C13_OwnPolicyOnSharedObserver ==
  last.op = "handleIntersection" /\ ~last.threw =>
    \A e \in Range(last.applied) : \A h \in Registrations(e) :
      Cardinality(Registrations(e)) = 1 /\ ~handles[h].disposed =>
        LET config == handles[h].config
            type   == IF dataset[e].animationType # "" THEN dataset[e].animationType
                      ELSE config.animationType
        IN /\ config.triggerOnce <=> e \notin observers[last.observer].targets
           /\ ~prefersReducedMotion =>
                /\ style[e].animationDuration
                     = ParseIntOr(dataset[e].animationDuration, config.duration)
                /\ ParseIntOr(dataset[e].animationDelay, config.delay) = 0 =>
                     {"visible", "animate-" \o type} \subseteq classList[e]

\* C14: cleanup of one handle affects only that handle's registrations: it
\* changes neither the classes, the style nor the observers of an element
\* the handle does not list, and an element that another live handle also
\* registered keeps its classes and stays observed by that handle's
\* observer.
C14_CleanupTouchesOwnRegistrationsOnly ==
  [][\A h \in 1..Len(handles) : CallCleanup(h) =>
       /\ \A e \in Elems \ Range(handles[h].elements) :
            /\ classList'[e] = classList[e]
            /\ style'[e] = style[e]
            /\ \A o \in 1..Len(observers) :
                 e \in observers'[o].targets <=> e \in observers[o].targets
       /\ \A other \in 1..Len(handles) :
            other # h /\ handles[other].kind = "handle" /\ ~handles[other].disposed =>
              \A e \in Range(handles[other].elements) :
                /\ classList'[e] = classList[e]
                /\ e \in observers[handles[other].observer].targets
                     => e \in observers'[handles[other].observer].targets]_vars

\* the classes cleanup takes from an element: removeAnimation's and the
\* base class of the registration
CleanupClasses ==
  {"visible", "animate-element"}
    \cup {"animate-" \o type : type \in AnimationType \ {"none"}}

C16_BatchOrderIndependent ==
  \A o \in 1..Len(observers) : \A entries \in Batches(o) :
    /\ Len(entries) = 2
    /\ \E h \in 1..Len(handles) :
         /\ handles[h].kind = "handle" /\ ~handles[h].disposed
         /\ {entries[1].target, entries[2].target} \subseteq Range(handles[h].elements)
    => LET W1 == handleIntersection(World, entries, o, observers[o].config)
           W2 == handleIntersection(World, <<entries[2], entries[1]>>, o,
                                    observers[o].config)
       IN /\ W1.classList = W2.classList
          /\ W1.observers = W2.observers
          /\ W1.registry = W2.registry

\* C17: a failure of the animation or image-loading initialiser never keeps
\* the remaining initialisers of the page from running: when init has caught
\* an error, the feature-flag section, the footer and the feature-flag
\* change listener have been initialised all the same.
C17_FailureLeavesOtherInitialisersRunning ==
  mainPage.caught =>
    /\ {"initHowItWorks", "initFooter", "handleFeatureFlagChanges"}
          \subseteq Range(mainPage.ran)
    /\ mainPage.footerListeners
    /\ mainPage.configListener

\* the loads in flight for an image
InFlight(ls, img) == { k \in 1..Len(ls) : ls[k].img = img }

\* an entry of img into the viewport
Entering(img) == [target |-> img, isIntersecting |-> TRUE, intersectionRatio |-> 10]

\* C18, the retry: an observed image that has not loaded, one whose load has
\* failed included, gets a load attempt from its next entry into the viewport
C18_EntryStartsAttempt ==
  \A o \in 1..Len(lazyObservers) : \A img \in lazyObservers[o].targets :
    "img-loaded" \notin imgClass[img] =>
      LET W == lazyCallback(LazyWorld, <<Entering(img)>>, o) IN
      /\ img \in Range(W.started)
      /\ \/ /\ Len(W.loads) = Len(loads) + 1
            /\ W.loads[Len(W.loads)].img = img
            /\ "img-loading" \in W.imgClass[img]
         \/ /\ imgAttr[img].dataSrc = "" /\ imgAttr[img].src = ""
            /\ "img-error" \in W.imgClass[img]

\* C18, the steps: outside cleanup an image leaves an observer only in a
\* step that leaves it loaded; a failing load releases nothing; no load
\* starts for an image that has loaded
C18_ReleaseOnlyOnSuccess ==
  /\ \A img \in Imgs :
       /\ \A o \in 1..Len(lazyObservers) :
            img \in lazyObservers[o].targets /\ img \notin lazyObservers'[o].targets =>
              last'.op = "lazyCleanup" \/ "img-loaded" \in imgClass'[img]
       /\ lazyRegistry[img] # 0 /\ lazyRegistry'[img] = 0 => "img-loaded" \in imgClass'[img]
       /\ "img-loaded" \in imgClass[img] =>
            /\ Cardinality(InFlight(loads', img)) <= Cardinality(InFlight(loads, img))
            /\ "img-loaded" \in imgClass'[img]
  /\ last'.op = "settle" /\ ~last'.ok =>
       /\ lazyObservers' = lazyObservers
       /\ lazyRegistry' = lazyRegistry
       /\ "img-error" \in imgClass'[last'.img]

\* C18: in lazy loading an image is unobserved only after its load has
\* succeeded; after a failed load it stays observed and a later entry into
\* the viewport starts another attempt; an image that has loaded is never
\* loaded again.
C18_UnobservedOnlyAfterSuccess ==
  /\ []C18_EntryStartsAttempt
  /\ [][C18_ReleaseOnlyOnSuccess]_vars

\* one image has loaded and left its observer while the load of the other
\* has just failed and left it observed
C18_Witness ==
  /\ last.op = "settle" /\ ~last.ok /\ last.observer # 0
  /\ last.img \in lazyObservers[last.observer].targets
  /\ "img-error" \in imgClass[last.img]
  /\ \E img \in Imgs \ {last.img} :
       /\ "img-loaded" \in imgClass[img]
       /\ img \notin lazyObservers[last.observer].targets

\* C19: whenever no load of an image is in flight the image does not carry
\* the loading class, and once a load of it has been started it carries
\* exactly one of the loaded and the error class; the loaded and the error
\* class are never present together.
C19_OneFinalClass ==
  \A img \in Imgs :
    /\ ~({"img-loaded", "img-error"} \subseteq imgClass[img])
    /\ InFlight(loads, img) = {} =>
         /\ "img-loading" \notin imgClass[img]
         /\ imgClass[img] # {} =>
              Cardinality(imgClass[img] \cap {"img-loaded", "img-error"}) = 1

\* a source the loop of selectBestSource settles on: it has a srcset and
\* either no type or a type whose format the cache holds as supported
Qualifies(source, cache) ==
  /\ Truthy(source.srcset)
  /\ \/ ~Truthy(source.type)
     \/ /\ FormatOfType(source.type.str) # ""
        /\ cache[ToLowerCase(FormatOfType(source.type.str))] = "true"

\* the first qualifying source in document order, 0 when there is none
FirstQualifying(sources, cache) ==
  LET q == { i \in 1..Len(sources) : Qualifies(sources[i], cache) } IN
  IF q = {} THEN 0 ELSE CHOOSE i \in q : \A j \in q : i <= j

\* C20 (as the code has it): selectBestSource resolves to what parseSrcset
\* makes of the srcset of the first source, in document order, that has a
\* non-empty srcset and either no type or a type whose format
\* checkFormatSupport reports as supported, which is a URL of that srcset or
\* null when the srcset is blank; only WebP and AVIF can be reported as
\* supported, JPEG never is; when no source qualifies it resolves to the
\* img's src, or to its data-src when src is absent or empty.
C20_FirstQualifyingSourceOrNull ==
  /\ formatSupportCache["jpeg"] # "true"
  /\ last.op = "selectBestSource" /\ picture # Null =>
       LET q == FirstQualifying(picture.sources, formatSupportCache) IN
       last.result =
         IF q # 0 THEN parseSrcset(picture.sources[q].srcset, last.dpr)
         ELSE IF Truthy(picture.img.src) THEN picture.img.src
         ELSE picture.img.dataSrc

\* C20 (as the spec states it): selectBestSource returns a URL of the first
\* qualifying source, and without one the img's src, or its data-src when
\* the src attribute is absent
C20_UrlOfFirstQualifyingSource ==
  last.op = "selectBestSource" /\ picture # Null =>
    LET q == FirstQualifying(picture.sources, formatSupportCache) IN
    IF q # 0
      THEN \E k \in 1..Len(picture.sources[q].srcset.candidates) :
             last.result = Str(picture.sources[q].srcset.candidates[k].url)
    ELSE last.result = IF picture.img.src # Null THEN picture.img.src
                       ELSE picture.img.dataSrc

\* a JPEG source with a srcset was passed over and the WebP source after it,
\* which the browser decodes, gave its 2x candidate
C20_Witness ==
  /\ last.op = "selectBestSource" /\ picture # Null
  /\ Len(picture.sources) = 2
  /\ picture.sources[1].type = Str("image/jpeg")
  /\ Truthy(picture.sources[1].srcset)
  /\ picture.sources[2].type = Str("image/webp")
  /\ last.dpr = 2000
  /\ last.result = Str("c.webp")

\* the ratio parseSrcset compares with: 1 when the window has none
RatioOf(dpr) == IF dpr = 0 THEN 1000 ELSE dpr

\* C21: for a srcset of candidates with density descriptors and any device
\* pixel ratio parseSrcset returns the url of a candidate whose density is
\* the smallest among those reaching the ratio, and when none reaches it the
\* url of a candidate of the largest density; for no string, an empty or a
\* blank srcset it returns null.
C21_SmallestDensityReachingRatio ==
  last.op = "parseSrcset" =>
    IF ~Truthy(last.srcset) \/ last.srcset.candidates = <<>> THEN last.result = Null
    ELSE LET c == last.srcset.candidates
             reach == { i \in 1..Len(c) : Density(c[i]) >= RatioOf(last.dpr) }
         IN \E i \in 1..Len(c) :
              /\ last.result = Str(c[i].url)
              /\ IF reach # {}
                   THEN i \in reach /\ \A j \in reach : Density(c[i]) <= Density(c[j])
                   ELSE \A j \in 1..Len(c) : Density(c[j]) <= Density(c[i])

\* a srcset written largest first: at ratio 1.5 the 2x candidate in second
\* place was returned, not the 3x candidate before it
C21_Witness ==
  /\ last.op = "parseSrcset" /\ last.dpr = 1500
  /\ Truthy(last.srcset) /\ Len(last.srcset.candidates) = 2
  /\ last.srcset.candidates[1].descriptor = [unit |-> "x", value |-> 30]
  /\ last.srcset.candidates[2].descriptor = [unit |-> "x", value |-> 20]
  /\ last.result = Str("u2")

\* the last two executions of a throttled function are a delay apart
Spaced(which) ==
  Len(throttles.executed[which]) = 2 =>
    throttles.executed[which][2] - throttles.executed[which][1] >= throttles.delay

\* C22: any two executions of func through a throttled function, of either
\* throttle, are at least delay milliseconds apart.
C22_ExecutionsDelayApart == Spaced("byTime") /\ Spaced("byFlag")

\* C23: initializeApp marks initialisation complete: with setupErrorHandling
\* and initializeFeatures succeeding it returns without throwing and
\* APP_STATE.initialized is true afterwards.
C23_InitializeAppMarksInitialized ==
  last.op = "initializeApp" => ~last.threw /\ APP_STATE.initialized

\* the functions the page and initializeSmoothScroll register through EventHandler.on
OnFunctions == {"h1", "h2", "smoothScroll"}

\* C24: EventHandler.cleanup removes every listener added through
\* EventHandler.on since the previous cleanup and empties the listener list:
\* afterwards no handler registered through on, direct or delegated, is left
\* on any target, none runs for any event, and another cleanup changes nothing.
C24_CleanupRemovesEveryListener ==
  /\ last.op = "appCleanup" =>
       /\ EventHandler.listeners = <<>>
       /\ { l \in domListeners : l.handler.fn \in OnFunctions } = {}
       /\ \A element \in {"document", "button", "link"} : \A eventType \in {"click", "error"} :
            Ran(domListeners, element, eventType) \cap OnFunctions = {}
       /\ appCleanup(AppWorld) = AppWorld
  /\ last.op = "dispatch" /\ EventHandler.listeners = <<>> =>
       last.ran \cap OnFunctions = {}

\* a cleanup that has removed a direct and a delegated registration
C24_Witness ==
  /\ last.op = "appCleanup"
  /\ last.direct
  /\ last.delegated

\* C25: the cleanup function returned by init runs every collected cleanup
\* function exactly once, in registration order, even when an earlier one
\* throws, and does not throw itself.
C25_CleanupRunsEveryFunctionInOrder ==
  last.op = "landingCleanup" =>
    /\ landing.ran = landing.cleanupFunctions
    /\ ~landing.threw

\* a cleanup of two functions of which the first has thrown
C25_Witness ==
  /\ last.op = "landingCleanup"
  /\ Len(landing.cleanupFunctions) = 2
  /\ landing.cleanupFunctions[1] \in last.fails
  /\ landing.handlers = {} /\ \E i \in DOMAIN landing.buttons : landing.buttons[i].href # ""

\* C26: after any sequence of next, previous, dot-click, arrow-key and swipe
\* actions on the testimonial carousel the current index is within
\* 0..slideCount-1, exactly the dot at the current index is active, the
\* previous button is disabled exactly when the index is 0 and the next
\* button exactly when it is slideCount-1.
C26_CarouselConsistent ==
  carousel.initialized =>
    /\ carousel.currentIndex \in 0..(carousel.slideCount - 1)
    /\ \A index \in DOMAIN carousel.dots :
         carousel.dots[index] <=> index = carousel.currentIndex
    /\ carousel.dots # <<>> => carousel.currentIndex \in DOMAIN carousel.dots
    /\ carousel.prevBtn # Null =>
         (carousel.prevBtn.bool <=> carousel.currentIndex = 0)
    /\ carousel.nextBtn # Null =>
         (carousel.nextBtn.bool <=> carousel.currentIndex = carousel.slideCount - 1)

\* a swipe has brought a carousel with dots and both buttons to its last slide
C26_Witness ==
  /\ carousel.initialized
  /\ last.op = "touchend"
  /\ carousel.slideCount >= 3
  /\ last.from = carousel.slideCount - 2
  /\ carousel.currentIndex = carousel.slideCount - 1
  /\ carousel.dots # <<>> /\ carousel.prevBtn # Null /\ carousel.nextBtn # Null

====
